---- MODULE Spec2Model ----
(***************************************************************************)
(* Verification model of the Notion-VSCode extension core:                 *)
(*   - the document assembler (blocksToMarkdown / processNormalBlock /     *)
(*     processTableRow) of notion-api-utils/block-to-markdown,             *)
(*   - the hierarchy cache of NotionTreeDataProvider (memory layer over    *)
(*     one file per key, TTL from getCacheTtlMs),                          *)
(*   - the page cache of NotionWebviewPanelSerializer,                     *)
(*   - the ancestor-chain walk (getAncestorChain).                         *)
(* Strings are modelled as sequences of tokens; a token stands for one     *)
(* piece of text the code appends in a single += .                         *)
(***************************************************************************)
EXTENDS Integers, Sequences, FiniteSets, TLC

(***************************************************************************)
(* Bounds of the model                                                     *)
(***************************************************************************)
\* total number of blocks in one render (top level + all fetched children)
MaxBlocks == 3
\* last value of the clock (Date.now()); the clock starts at 1
MaxTime == 3
\* clock ticks per day: getCacheTtlMs() is cacheTtlDays * DayTicks
DayTicks == 1
\* number of nodes of the workspace in the ancestor-chain walk
MaxNodes == 3
\* the hop limit of getAncestorChain (while (currentId && guard < 50))
MaxHops == 50
\* number of rows a database query answers with
MaxRows == 3
\* number of database placeholders in one document
MaxPlaceholders == 2
\* number of blockToMarkdown calls made on one block
MaxRenders == 2
\* number of rich-text items in one paragraph of a scanned page
MaxTexts == 2
\* number of blocks of a scanned page
MaxScanBlocks == 2
\* number of characters in the title of a child_database block
MaxTitle == 3

VARIABLES
  \* ---- document assembler ----
  stack,        \* call stack of blocksToMarkdown activations (last = innermost)
  hasCallback,  \* whether getChildBlocks was supplied
  output,       \* the string the outermost blocksToMarkdown resolved with
  done,         \* the outermost promise has resolved
  top,          \* the block list given to the outermost call
  kids,         \* id -> list a successful getChildBlocks(id) resolved with
  expanded,     \* ids whose getChildBlocks call resolved
  failed,       \* ids whose getChildBlocks call rejected
  calls         \* ids getChildBlocks was invoked with, in call order

asmVars == <<stack, hasCallback, output, done, top, kids, expanded, failed, calls>>

VARIABLES
  \* ---- shared by the caches ----
  now,          \* Date.now()
  cacheTtlDays, \* configuration notion.cacheTtlDays
  \* ---- hierarchy cache (NotionTreeDataProvider) ----
  cache,        \* this.cache: `${type}:${id}` -> children
  disk,         \* files of cacheDir, by path
  parentMap,    \* this.parentMap: child id -> parent element
  itemCache,    \* this.itemCache: id -> item
  elements,     \* the elements the tree view holds (getChildren is called with them)
  op,           \* the operation in flight and where it stands
  log,          \* what the getChildren call in flight (or last returned) did, in order
  ret,          \* what the last finished operation returned
  last          \* name of the operation that finished in the last step, else "none"

clockVars == <<now, cacheTtlDays>>
treeVars == <<cache, disk, parentMap, itemCache, elements, op, log, ret, last>>

VARIABLES
  \* ---- page cache (NotionWebviewPanelSerializer) ----
  pageDisk,     \* files of pageCacheDir, by page id
  webviews,     \* this.cache: ids of the pages that have an open panel
  panels,       \* by page id: the state the handlers of its panel were made with
  pop,          \* the page operation in flight and where it stands
  pret,         \* what the last finished page operation did
  plast         \* name of the page operation that finished in the last step, else "none"

pageVars == <<pageDisk, webviews, panels, pop, pret, plast>>

VARIABLES
  \* ---- ancestor-chain walk (getAncestorChain) ----
  origin,       \* the workspace as the API answers: parent and kind of every node
  walk,         \* locals of the getAncestorChain call in flight
  cret          \* what the last getAncestorChain call returned

chainVars == <<origin, walk, cret>>

VARIABLES
  \* ---- operations the UI calls (ensureItemVisible, getChildren, getPageDataById) ----
  configured,   \* api: the client has an API key; root: notion.rootPage yields an id
  vis,          \* locals of the ensureItemVisible call in flight
  uret          \* what the last finished UI operation answered

uiVars == <<configured, vis, uret>>

VARIABLES
  \* ---- view kind of a database (detectDateProperty) ----
  rows,         \* the fetched rows: one cell per column of the first row's properties
  view,         \* what the last detection answered
  \* ---- inline database resolver (collectInlineDbData) ----
  doc,          \* the markdown given: its placeholders, in document order
  hasInfo,      \* whether getDatabaseInfo was supplied
  inl,          \* locals of the collectInlineDbData call
  env           \* what the fetchers answered, by database id

VARIABLES
  \* ---- blockToMarkdown on one block ----
  blk,          \* the block given
  outs          \* what each call made so far gave back, in call order

VARIABLES
  \* ---- a refresh running beside a getChildren call ----
  rf            \* the refresh()/refreshItem() call: where it stands

VARIABLES
  \* ---- one origin scan of a page for its children (fetchPageChildren) ----
  scan,         \* the blocks of the page and the locals of the scan loop
  \* ---- a placeholder token written and read back ----
  tk            \* the child_database block, the text written, the match read

viewVars == <<rows, view>>
inlineVars == <<doc, hasInfo, inl, env>>
renderVars == <<blk, outs>>
raceVars == <<rf>>
scanVars == <<scan>>
tokenVars == <<tk>>
convVars == <<viewVars, inlineVars, renderVars, raceVars, scanVars, tokenVars>>

vars == <<asmVars, clockVars, treeVars, pageVars, chainVars, uiVars, convVars>>
nonAsmVars == <<clockVars, treeVars, pageVars, chainVars, uiVars, convVars>>
nonTreeVars == <<asmVars, pageVars, chainVars, uiVars, convVars>>

(***************************************************************************)
(* Hierarchy cache: ids, keys, files                                       *)
(***************************************************************************)
\* an id is 32 hex characters (h stands for them), written with or without
\* the hyphens of the 8-4-4-4-12 form
Id(h, d) == [h |-> h, dashed |-> d]
\* value.replaceAll("-", "")
normalizeId(id) == Id(id.h, FALSE)

Types == {"page", "database"}
\* the node whose children are asked for, in both spellings of its id
ElemIds == {Id(1, TRUE), Id(1, FALSE)}
Elements == [id : ElemIds, type : Types]
ChildItem == [id |-> Id(2, TRUE), type |-> "page"]
\* children lists the origin can answer with
DataVals == {<<>>, <<ChildItem>>}
\* the same for any element: nothing, or the page that follows it
originChildren(el) == {<<>>, <<[id |-> Id(el.id.h + 1, TRUE), type |-> "page"]>>}

\* `${type}:${pageId}`
cacheKey(id, type) == [type |-> type, id |-> id]
MemKeys == [type : Types, id : ElemIds]
\* getCachePath: cacheDir/<key without hyphens>.json
getCachePath(key) == [type |-> key.type, id |-> normalizeId(key.id)]
Paths == { getCachePath(k) : k \in MemKeys }

\* a Map entry: has = FALSE stands for "no entry"; at is the time the data
\* was written to the cache (bookkeeping of the model, the code keeps none)
NoEntry == [has |-> FALSE, data |-> <<>>, at |-> 0]
Entry(d, t) == [has |-> TRUE, data |-> d, at |-> t]

\* a file: none (ENOENT), garbage (JSON.parse throws), or {timestamp, data};
\* the timestamp is a number (num), absent (missing) or not a number (nan)
NoFile == [kind |-> "none", ts |-> "num", n |-> 0, data |-> <<>>]
Garbage == [kind |-> "garbage", ts |-> "num", n |-> 0, data |-> <<>>]
File(ts, n, d) == [kind |-> "entry", ts |-> ts, n |-> n, data |-> d]

getCacheTtlMs == cacheTtlDays * DayTicks

\* loadFromCache up to its decision on the file read
loadVerdict(f) ==
  IF f.kind = "none" THEN "enoent"
  ELSE IF f.kind = "garbage" THEN "error"
  ELSE IF f.ts # "num" \/ f.n = 0 THEN "invalid"
  ELSE IF now - f.n > getCacheTtlMs THEN "expired"
  ELSE "hit"

Idle == [name |-> "idle", pc |-> "idle", el |-> [id |-> Id(1, FALSE), type |-> "page"],
         data |-> <<>>, flag |-> FALSE]
NoRet == [served |-> "none", el |-> Idle.el, data |-> <<>>, at |-> 0, memAtCall |-> FALSE,
          verdict |-> "none", wrote |-> FALSE, originFailed |-> FALSE, afterRefresh |-> FALSE]

\* the tree provider with nothing cached and nothing in flight
TreeQuiet ==
  /\ cache = [k \in MemKeys |-> NoEntry]
  /\ disk = [q \in Paths |-> NoFile]
  /\ parentMap = {} /\ elements = {}
  /\ op = Idle /\ log = <<>> /\ ret = NoRet /\ last = "none"

TreeIdle ==
  /\ now = 1 /\ cacheTtlDays = 1
  /\ TreeQuiet /\ itemCache = {}

(***************************************************************************)
(* Page cache: files and panels                                            *)
(***************************************************************************)
\* the page that is opened
PageIds == {Id(1, TRUE)}
\* a NotionWebviewState: the content of the page and the view modes the user
\* chose ("none": no viewModes field)
St(c) == [content |-> c, viewModes |-> "none"]
NoState == St("none")
\* states of the page at the origin (fetchDataAndGetPageState)
PageStates == {St("s1"), St("s2")}
\* message.viewModes of a saveViewModes message
ViewModes == {"table", "calendar"}
\* no panel; refreshed is the state the last refreshActivePage of the panel
\* fetched and stored (bookkeeping of the model, the code keeps none)
NoPanel == [state |-> NoState, refreshed |-> NoState]

\* a file of pageCacheDir: none (ENOENT), garbage (JSON.parse throws), or
\* {timestamp, state}; the timestamp is a number (num), absent (missing) or a
\* value whose difference from Date.now() is NaN (nan)
NoPageFile == [kind |-> "none", ts |-> "num", n |-> 0, state |-> NoState]
PageGarbage == [kind |-> "garbage", ts |-> "num", n |-> 0, state |-> NoState]
PageFile(ts, n, st) == [kind |-> "entry", ts |-> ts, n |-> n, state |-> st]

\* an age test that lets every entry pass
pageExpiredNever(f) == FALSE

\* cacheAgeMs > getCacheTtlMs(), with cacheAgeMs = Date.now() - timestamp:
\* a comparison with NaN is false
pageExpired(f) == f.ts = "num" /\ now - f.n > getCacheTtlMs

\* what the claim calls the entry that was read
pageEntryClass(f) ==
  IF f.kind = "none" THEN "none"
  ELSE IF f.kind = "garbage" THEN "garbage"
  ELSE IF f.ts = "missing" THEN "missing"
  ELSE IF f.ts = "nan" THEN "nan"
  ELSE IF now - f.n > getCacheTtlMs THEN "expired"
  ELSE "fresh"

PageOpIdle == [name |-> "idle", pc |-> "idle", id |-> Id(1, TRUE), state |-> NoState]
NoPageRet == [served |-> "none", id |-> Id(1, TRUE), state |-> NoState, found |-> "none",
              unlinked |-> FALSE, fetched |-> FALSE, stored |-> NoState, deleted |-> FALSE,
              wrote |-> FALSE]

PageIdle ==
  /\ pageDisk = [i \in PageIds |-> NoPageFile]
  /\ webviews = {} /\ panels = [i \in PageIds |-> NoPanel]
  /\ pop = PageOpIdle /\ pret = NoPageRet /\ plast = "none"

(***************************************************************************)
(* Ancestor-chain walk: the workspace                                      *)
(***************************************************************************)
Nodes == 1..MaxNodes
\* an absent id (undefined, or the empty string)
NoId == Id(0, FALSE)
\* normalizeId(rootPageId) of the configured root (ensureItemVisible)
rootNormalized == Id(1, FALSE)
\* ids getAncestorChain is called with
Requests == { Id(n, d) : n \in Nodes, d \in BOOLEAN } \cup {NoId}

\* a workspace: the parent the API declares for each node (0: none) and what
\* the node is (none: neither pages.retrieve nor databases.retrieve answers)
NodeKinds == {"page", "database", "none"}
\* the workspace in which the parent of node n is node n + 1, without end
Ladder == [ladder |-> TRUE, parentOf |-> [n \in Nodes |-> 0], kind |-> [n \in Nodes |-> "page"]]
Origins ==
  { o \in [ladder : {FALSE}, parentOf : [Nodes -> 0..MaxNodes], kind : [Nodes -> NodeKinds]] :
      Cardinality({ n \in Nodes : o.kind[n] # "page" }) <= 1 }
  \cup {Ladder}
originParent(h) ==
  IF origin.ladder THEN h + 1 ELSE IF h \in Nodes THEN origin.parentOf[h] ELSE 0
originKind(h) ==
  IF origin.ladder THEN "page" ELSE IF h \in Nodes THEN origin.kind[h] ELSE "none"

NoItem == [id |-> NoId, type |-> "page"]
NoInfo == [isNull |-> TRUE, item |-> NoItem, parentId |-> NoId]
\* fetchItemInfoWithParent: the item carries the id the API reports (hyphenated)
fetchItemInfoWithParent(pageId) ==
  IF originKind(pageId.h) = "none" THEN NoInfo
  ELSE [isNull |-> FALSE,
        item |-> [id |-> Id(pageId.h, TRUE), type |-> originKind(pageId.h)],
        parentId |-> IF originParent(pageId.h) = 0 THEN NoId ELSE Id(originParent(pageId.h), TRUE)]

WalkIdle == [pc |-> "idle", pageId |-> NoId, currentId |-> NoId, guard |-> 0,
             chain |-> <<>>, seen |-> {}, why |-> "none"]
NoChainRet == [done |-> FALSE, isNull |-> TRUE, chain |-> <<>>, pageId |-> NoId, why |-> "none",
               guard |-> 0]

ChainIdle ==
  /\ origin = Ladder /\ walk = WalkIdle /\ cret = NoChainRet

(***************************************************************************)
(* Databases: rows, view kind, placeholders                                *)
(***************************************************************************)
\* a cell of a row: a property that is no date (text), a date property with
\* date: null (nodate), with start only (start), with start and end (range)
DateCells == {"nodate", "start", "range"}
\* property types of the first row, in the order of Object.entries
Schemas ==
  { <<>>, <<"text">>, <<"date">>, <<"text", "date">>, <<"date", "text">>, <<"date", "date">> }
RowsOf(schema) ==
  [1..Len(schema) -> DateCells \cup {"text"}] \cap
  { r \in [1..Len(schema) -> DateCells \cup {"text"}] :
      \A c \in 1..Len(schema) : (r[c] = "text") <=> (schema[c] = "text") }
NoView == [done |-> FALSE, fn |-> "none", viewType |-> "table", datePropertyName |-> 0]

ViewIdle == rows = <<>> /\ view = NoView

InlIdle == [pc |-> "idle", i |-> 0, markdown |-> <<>>, inlineDatabases |-> <<>>,
            rowCalls |-> <<>>, title |-> "none"]
InlineIdle ==
  /\ doc = <<>> /\ hasInfo = FALSE /\ inl = InlIdle /\ env = <<>>

NoBlock == [isNull |-> TRUE, type |-> "paragraph", payload |-> "missing", url |-> "none"]
RenderIdle == blk = NoBlock /\ outs = <<>>

\* stale: the getChildren call in flight had its origin answer when the
\* refresh began; ok: the deletions of the refresh succeeded
RfIdle == [pc |-> "idle", kind |-> "none", id |-> Id(1, FALSE), stale |-> FALSE, ok |-> FALSE]
RaceIdle == rf = RfIdle

\* no scan under way: no blocks, nothing found
NoScan == [pc |-> "idle", blocks |-> <<>>, i |-> 0, children |-> <<>>, seenIds |-> {}]
ScanIdle == scan = NoScan

NoToken == [pc |-> "idle", id |-> <<>>, title |-> <<>>, tail |-> <<>>, text |-> <<>>,
            found |-> FALSE, databaseId |-> <<>>, parsedTitle |-> <<>>, consumed |-> 0]
TokenIdle == tk = NoToken

ConvIdle == ViewIdle /\ InlineIdle /\ RenderIdle /\ RaceIdle /\ ScanIdle /\ TokenIdle

(***************************************************************************)
(* Operations the UI calls                                                 *)
(***************************************************************************)
Configured == [api |-> TRUE, root |-> TRUE]
VisIdle == [pc |-> "idle", pageId |-> NoId, i |-> 0]
\* answer of a UI operation: null, an item, a list, a value (page data), or
\* an exception (threw), which is the not-configured error when notConfigured
NoUiRet == [done |-> FALSE, name |-> "none", kind |-> "none", item |-> NoItem,
            pageId |-> NoId, chain |-> <<>>, matched |-> 0, notConfigured |-> FALSE,
            pageOk |-> FALSE, dbOk |-> FALSE, dbTried |-> FALSE]

UiIdle ==
  /\ configured = Configured /\ vis = VisIdle /\ uret = NoUiRet


(***************************************************************************)
(* Blocks                                                                  *)
(***************************************************************************)
NullParent == "null"
ParentIds == {"T1", "T2"}

\* block shapes the model draws from: (type, is_toggleable, has_children,
\* parent.block_id, table_row.cells.length)
Shape(t, g, h, p, c) == [type |-> t, togg |-> g, has_children |-> h, parent |-> p, cells |-> c]

RowShapes ==
  { Shape("table_row", FALSE, FALSE, "T1", 1),
    Shape("table_row", FALSE, FALSE, "T1", 2),
    Shape("table_row", FALSE, FALSE, "T2", 1) }

NormalShapes ==
  { Shape("paragraph", FALSE, h, "P", 0) : h \in BOOLEAN } \cup
  { Shape("toggle", FALSE, h, "P", 0) : h \in BOOLEAN } \cup
  { Shape("heading_1", TRUE, TRUE, "P", 0),
    Shape("heading_1", FALSE, FALSE, "P", 0) } \cup
  { Shape("table", FALSE, h, "P", 0) : h \in BOOLEAN } \cup
  { Shape("child_page", FALSE, TRUE, "P", 0),
    Shape("child_database", FALSE, TRUE, "P", 0),
    Shape("heading_1", TRUE, FALSE, "P", 0) }

Shapes == RowShapes \cup NormalShapes

SeqsUpTo(S, n) == UNION { [1..k -> S] : k \in 0..n }

\* give the blocks of a list the ids base+1, base+2, ...
WithIds(shapes, base) ==
  [k \in 1..Len(shapes) |->
     [id |-> base + k, type |-> shapes[k].type, togg |-> shapes[k].togg,
      has_children |-> shapes[k].has_children, parent |-> shapes[k].parent,
      cells |-> shapes[k].cells]]

(***************************************************************************)
(* Text tokens                                                             *)
(***************************************************************************)
Tok(k, id, n, open) == [k |-> k, id |-> id, n |-> n, open |-> open]
\* blockToMarkdown(row) + "\n"
RowLine(b) == Tok("row", b.id, b.cells, FALSE)
\* `| --- | --- |\n` with n cells
SepLine(n) == Tok("sep", 0, n, FALSE)
\* "\n\n"
Blank == Tok("nn", 0, 0, FALSE)
\* "</details>\n"
Close == Tok("close", 0, 0, FALSE)

isToggleOrToggleHeading(b) ==
  \/ b.type = "toggle"
  \/ (b.type \in {"heading_1", "heading_2", "heading_3"} /\ b.togg)

\* a shouldSkipChildren that lets every block be expanded
shouldSkipChildrenNever(b) == FALSE

shouldSkipChildren(b) == b.type \in {"child_page", "child_database"}

\* blockToMarkdown(b) for a block that is not a table_row: the fragment; open
\* says that the fragment is a `<details><summary>..</summary>` opener
\* (renderToggle, renderHeading with is_toggleable)
blockToMarkdown(b) == Tok("frag", b.id, 0, isToggleOrToggleHeading(b))

endsWithBlank(md) == Len(md) > 0 /\ md[Len(md)] = Blank

(***************************************************************************)
(* processTableRow: returns the text and the new table state               *)
(***************************************************************************)
InitTableState == [currentTableParentId |-> NullParent, isFirstRowInCurrentTable |-> FALSE]

\* a processTableRow that never clears isFirstRowInCurrentTable
processTableRowKeepsFirst(b, st) ==
  LET st1 == IF b.parent # st.currentTableParentId
             THEN [currentTableParentId |-> b.parent, isFirstRowInCurrentTable |-> TRUE]
             ELSE st
  IN  IF st1.isFirstRowInCurrentTable
      THEN [text |-> <<RowLine(b), SepLine(b.cells)>>, state |-> st1]
      ELSE [text |-> <<RowLine(b)>>, state |-> st1]

processTableRow(b, st) ==
  LET st1 == IF b.parent # st.currentTableParentId
             THEN [currentTableParentId |-> b.parent, isFirstRowInCurrentTable |-> TRUE]
             ELSE st
  IN  IF st1.isFirstRowInCurrentTable
      THEN [text |-> <<RowLine(b), SepLine(b.cells)>>,
            state |-> [st1 EXCEPT !.isFirstRowInCurrentTable = FALSE]]
      ELSE [text |-> <<RowLine(b)>>, state |-> st1]

\* a loop that forgets to reset the table context
resetTableStateNever(b, st) == st

\* the reset in the loop of blocksToMarkdown after a non-table_row block
resetTableState(b, st) ==
  IF b.type # "table" THEN InitTableState ELSE st

\* a processNormalBlock that appends no blank line to the fragment
normalHeadNoBlankLine(b) ==
  <<blockToMarkdown(b)>> \o
  (IF isToggleOrToggleHeading(b) /\ ~b.has_children THEN <<Close>> ELSE <<>>)

\* processNormalBlock up to its first await
normalHead(b) ==
  <<blockToMarkdown(b), Blank>> \o
  (IF isToggleOrToggleHeading(b) /\ ~b.has_children THEN <<Close>> ELSE <<>>)

\* the condition under which processNormalBlock calls getChildBlocks
fetchesChildren(b) == b.has_children /\ hasCallback /\ ~shouldSkipChildren(b)

\* processNormalBlock after blocksToMarkdown(childBlocks) resolved
normalTail(b, childMarkdown) ==
  (IF endsWithBlank(childMarkdown) THEN childMarkdown ELSE childMarkdown \o <<Blank>>) \o
  (IF isToggleOrToggleHeading(b) THEN <<Close>> ELSE <<>>)

(***************************************************************************)
(* The characters of the text: a string is the sequence of its pieces, "\n"*)
(* always being a piece of its own                                         *)
(***************************************************************************)
NL == "\n"
\* the rich text of the blocks the model draws: paragraphs read Hello, every
\* other block reads FAQ
getRichTextPlainText(b) == IF b.type = "paragraph" THEN "Hello" ELSE "FAQ"

renderParagraph(b) == <<getRichTextPlainText(b)>>

\* a renderHeading whose toggleable opener does not end with a newline
renderHeadingOpenerNoNewline(b) ==
  IF b.togg
  THEN <<"<details>", NL, "<summary><h1>", getRichTextPlainText(b), "</h1></summary>">>
  ELSE <<"# ", getRichTextPlainText(b)>>

\* renderHeading(1, block)
renderHeading(b) ==
  IF b.togg
  THEN <<"<details>", NL, "<summary><h1>", getRichTextPlainText(b), "</h1></summary>", NL>>
  ELSE <<"# ", getRichTextPlainText(b)>>

renderToggle(b) == <<"<details>", NL, "<summary>", getRichTextPlainText(b), "</summary>", NL>>

\* blockRenderers[type](block) for the block types of the assembler model
blockRenderers(b) ==
  IF b.type = "paragraph" THEN renderParagraph(b)
  ELSE IF b.type = "heading_1" THEN renderHeading(b)
  ELSE IF b.type = "toggle" THEN renderToggle(b)
  ELSE IF b.type = "table" THEN <<>>
  ELSE IF b.type = "table_row" THEN <<"| ", "cells", " |">>
  ELSE <<"[", b.type, "](/id)">>

\* the characters one token of the text stands for; blocks are the blocks of
\* the render
tokenText(t, blocks) ==
  IF t.k = "frag" THEN blockRenderers(CHOOSE b \in blocks : b.id = t.id)
  ELSE IF t.k = "row" THEN blockRenderers(CHOOSE b \in blocks : b.id = t.id) \o <<NL>>
  ELSE IF t.k = "sep" THEN <<"| ", "---", " |", NL>>
  ELSE IF t.k = "nn" THEN <<NL, NL>>
  ELSE <<"</details>", NL>>

(***************************************************************************)
(* blocksToMarkdown as a machine: one frame per activation                 *)
(***************************************************************************)
Frame(bs) == [blocks |-> bs, i |-> 1, markdown |-> <<>>, tableState |-> InitTableState,
              result |-> <<>>, pc |-> "loop"]

Top == stack[Len(stack)]
Cur == Top.blocks[Top.i]
SetTop(f) == [stack EXCEPT ![Len(stack)] = f]
RECURSIVE SumKids(_)
SumKids(S) == IF S = {} THEN 0
              ELSE LET x == CHOOSE y \in S : TRUE IN Len(kids[x]) + SumKids(S \ {x})
\* number of blocks seen so far in this render
Used == Len(top) + SumKids(expanded)

AsmIdle ==
  /\ hasCallback = FALSE /\ stack = <<>> /\ output = <<>> /\ done = TRUE
  /\ top = <<>> /\ kids = <<>> /\ expanded = {} /\ failed = {} /\ calls = <<>>

AsmInit ==
  /\ TreeIdle /\ PageIdle /\ ChainIdle /\ UiIdle /\ ConvIdle
  /\ hasCallback \in BOOLEAN
  /\ \E shapes \in SeqsUpTo(Shapes, MaxBlocks) :
       /\ top = WithIds(shapes, 0)
       /\ stack = <<Frame(WithIds(shapes, 0))>>
  /\ output = <<>>
  /\ done = FALSE
  /\ kids = [b \in 1..MaxBlocks + 1 |-> <<>>]
  /\ expanded = {}
  /\ failed = {}
  /\ calls = <<>>

\* loop body, block.type === "table_row"
TableRowStep ==
  /\ ~done /\ Top.pc = "loop" /\ Top.i <= Len(Top.blocks)
  /\ Cur.type = "table_row"
  /\ LET r == processTableRow(Cur, Top.tableState)
     IN stack' = SetTop([Top EXCEPT !.markdown = @ \o r.text,
                                    !.tableState = r.state,
                                    !.i = @ + 1])
  /\ UNCHANGED <<hasCallback, output, done, top, kids, expanded, failed, calls>>
  /\ UNCHANGED nonAsmVars

\* loop body, other block, processNormalBlock returns without awaiting children
NormalBlockStep ==
  /\ ~done /\ Top.pc = "loop" /\ Top.i <= Len(Top.blocks)
  /\ Cur.type # "table_row"
  /\ ~fetchesChildren(Cur)
  /\ stack' = SetTop([Top EXCEPT !.markdown = @ \o normalHead(Cur),
                                 !.tableState = resetTableState(Cur, @),
                                 !.i = @ + 1])
  /\ UNCHANGED <<hasCallback, output, done, top, kids, expanded, failed, calls>>
  /\ UNCHANGED nonAsmVars

\* processNormalBlock reaches `await getChildBlocks(block.id)`
CallGetChildBlocks ==
  /\ ~done /\ Top.pc = "loop" /\ Top.i <= Len(Top.blocks)
  /\ Cur.type # "table_row"
  /\ fetchesChildren(Cur)
  /\ stack' = SetTop([Top EXCEPT !.result = normalHead(Cur), !.pc = "await"])
  /\ calls' = Append(calls, Cur.id)
  /\ UNCHANGED <<hasCallback, output, done, top, kids, expanded, failed>>
  /\ UNCHANGED nonAsmVars

\* getChildBlocks resolves: blocksToMarkdown(childBlocks, getChildBlocks) starts
GetChildBlocksResolve ==
  /\ ~done /\ Top.pc = "await"
  /\ \E shapes \in SeqsUpTo(Shapes, MaxBlocks - Used) :
       /\ LET cb == WithIds(shapes, Used)
          IN /\ kids' = [kids EXCEPT ![Cur.id] = cb]
             /\ stack' = Append(SetTop([Top EXCEPT !.pc = "child"]), Frame(cb))
  /\ expanded' = expanded \cup {Cur.id}
  /\ UNCHANGED <<hasCallback, output, done, top, failed, calls>>
  /\ UNCHANGED nonAsmVars

\* a catch that loses the text processNormalBlock had built before the await
GetChildBlocksRejectDropsResult ==
  /\ ~done /\ Top.pc = "await"
  /\ stack' = SetTop([Top EXCEPT !.result = <<>>,
                                 !.tableState = resetTableState(Cur, @),
                                 !.i = @ + 1,
                                 !.pc = "loop"])
  /\ failed' = failed \cup {Cur.id}
  /\ UNCHANGED <<hasCallback, output, done, top, kids, expanded, calls>>
  /\ UNCHANGED nonAsmVars

\* getChildBlocks rejects: the catch of processNormalBlock, then the loop goes on
GetChildBlocksReject ==
  /\ ~done /\ Top.pc = "await"
  /\ stack' = SetTop([Top EXCEPT !.markdown = @ \o Top.result,
                                 !.result = <<>>,
                                 !.tableState = resetTableState(Cur, @),
                                 !.i = @ + 1,
                                 !.pc = "loop"])
  /\ failed' = failed \cup {Cur.id}
  /\ UNCHANGED <<hasCallback, output, done, top, kids, expanded, calls>>
  /\ UNCHANGED nonAsmVars

\* a return that puts the text of the children before the text of their parent
ChildReturnChildrenFirst ==
  /\ ~done /\ Len(stack) > 1
  /\ Top.pc = "loop" /\ Top.i > Len(Top.blocks)
  /\ LET p == stack[Len(stack) - 1]
         b == p.blocks[p.i]
     IN stack' = [SubSeq(stack, 1, Len(stack) - 1) EXCEPT ![Len(stack) - 1] =
                    [p EXCEPT !.markdown = @ \o normalTail(b, Top.markdown) \o p.result,
                              !.result = <<>>,
                              !.tableState = resetTableState(b, @),
                              !.i = @ + 1,
                              !.pc = "loop"]]
  /\ UNCHANGED <<hasCallback, output, done, top, kids, expanded, failed, calls>>
  /\ UNCHANGED nonAsmVars

\* an inner blocksToMarkdown returns to the processNormalBlock awaiting it
ChildReturn ==
  /\ ~done /\ Len(stack) > 1
  /\ Top.pc = "loop" /\ Top.i > Len(Top.blocks)
  /\ LET p == stack[Len(stack) - 1]
         b == p.blocks[p.i]
         res == p.result \o normalTail(b, Top.markdown)
     IN stack' = [SubSeq(stack, 1, Len(stack) - 1) EXCEPT ![Len(stack) - 1] =
                    [p EXCEPT !.markdown = @ \o res,
                              !.result = <<>>,
                              !.tableState = resetTableState(b, @),
                              !.i = @ + 1,
                              !.pc = "loop"]]
  /\ UNCHANGED <<hasCallback, output, done, top, kids, expanded, failed, calls>>
  /\ UNCHANGED nonAsmVars

\* the outermost blocksToMarkdown returns markdown
OuterReturn ==
  /\ ~done /\ Len(stack) = 1
  /\ Top.pc = "loop" /\ Top.i > Len(Top.blocks)
  /\ output' = Top.markdown
  /\ done' = TRUE
  /\ UNCHANGED <<stack, hasCallback, top, kids, expanded, failed, calls>>
  /\ UNCHANGED nonAsmVars

AsmNext ==
  \/ TableRowStep
  \/ NormalBlockStep
  \/ CallGetChildBlocks
  \/ GetChildBlocksResolve
  \/ GetChildBlocksReject
  \/ ChildReturn
  \/ OuterReturn

SpecAsm == AsmInit /\ [][AsmNext]_vars

(***************************************************************************)
(* Hierarchy cache: operations of NotionTreeDataProvider                   *)
(* An operation runs from its call to its return in steps that end at its  *)
(* awaits; one operation is in flight at a time, and the clock advances    *)
(* between operations.                                                     *)
(***************************************************************************)
RootItem == [id |-> Id(1, TRUE), type |-> "page"]
\* files a previous session may have left in cacheDir
InitFiles ==
  { NoFile, Garbage, File("missing", 0, <<ChildItem>>), File("nan", 0, <<ChildItem>>),
    File("num", 1, <<ChildItem>>) }

TreeInit ==
  /\ AsmIdle /\ PageIdle /\ ChainIdle /\ UiIdle /\ ConvIdle
  /\ now = 1
  /\ cacheTtlDays \in {0, 1}
  /\ cache = [k \in MemKeys |-> NoEntry]
  /\ \E f \in InitFiles :
       disk = [q \in Paths |-> IF q.type = "page" THEN f ELSE NoFile]
  /\ parentMap = {} /\ itemCache = {}
  /\ elements = [id : {Id(1, TRUE)}, type : Types]
  /\ op = Idle /\ log = <<>> /\ ret = NoRet /\ last = "none"

\* Map.set on a Map kept as a set of records with one record per key
itemCacheSet(m, items) ==
  { x \in m : \A k \in 1..Len(items) : items[k].id # x.id } \cup { items[k] : k \in 1..Len(items) }
parentMapSet(m, children, element) ==
  { x \in m : \A k \in 1..Len(children) : children[k].id # x.child } \cup
  { [child |-> children[k].id, parent |-> element] : k \in 1..Len(children) }

\* the call being made is the first operation after a refresh() or after a
\* refreshItem of the same node
followsRefresh(el) ==
  /\ last \in {"refreshItem", "refresh"}
  /\ (last = "refreshItem" => normalizeId(ret.el.id) = normalizeId(el.id))

\* getChildren(element) returning children: records the parents (part_009:652-657)
Returned(el, children, served, at) ==
  /\ parentMap' = parentMapSet(parentMap, children, el)
  /\ op' = Idle
  /\ last' = "getChildren"
  /\ ret' = [ret EXCEPT !.served = served, !.el = el, !.data = children, !.at = at]

Tick ==
  /\ op.name = "idle" /\ pop.name = "idle" /\ now < MaxTime
  /\ now' = now + 1
  /\ last' = "none" /\ log' = <<>> /\ ret' = NoRet
  /\ plast' = "none" /\ pret' = NoPageRet
  /\ UNCHANGED <<cacheTtlDays, cache, disk, parentMap, itemCache, elements, op>>
  /\ UNCHANGED <<pageDisk, webviews, panels, pop, asmVars, chainVars, uiVars, convVars>>

\* getChildren() without element: the root page is fetched and put in itemCache
GetRoot ==
  /\ op.name = "idle"
  /\ \E ok \in BOOLEAN :
       /\ itemCache' = IF ok THEN itemCacheSet(itemCache, <<RootItem>>) ELSE itemCache
       /\ ret' = [NoRet EXCEPT !.data = IF ok THEN <<RootItem>> ELSE <<>>,
                               !.originFailed = ~ok]
  /\ last' = "getRoot" /\ log' = <<>>
  /\ UNCHANGED <<clockVars, elements, cache, disk, parentMap, op, nonTreeVars>>

\* getChildren(element) -> fetchPageChildren: the memory layer
GetChildrenCall ==
  /\ op.name = "idle"
  /\ \E el \in elements :
       LET key == cacheKey(el.id, el.type)
       IN  IF cache[key].has
           THEN /\ log' = <<"mem">>
                /\ parentMap' = parentMapSet(parentMap, cache[key].data, el)
                /\ op' = Idle
                /\ last' = "getChildren"
                /\ ret' = [NoRet EXCEPT !.served = "memory", !.el = el,
                                        !.data = cache[key].data, !.at = cache[key].at,
                                        !.memAtCall = TRUE,
                                        !.afterRefresh = followsRefresh(el)]
           ELSE /\ log' = <<>>
                /\ op' = [Idle EXCEPT !.name = "getChildren", !.pc = "readFile", !.el = el]
                /\ last' = "none"
                /\ ret' = [NoRet EXCEPT !.el = el, !.afterRefresh = followsRefresh(el)]
                /\ UNCHANGED parentMap
  /\ UNCHANGED <<clockVars, elements, cache, disk, itemCache, nonTreeVars>>

\* a disk hit that does not populate the memory layer
LoadFromCacheNoMemSet ==
  /\ op.name = "getChildren" /\ op.pc = "readFile"
  /\ LET key == cacheKey(op.el.id, op.el.type)
         f == disk[getCachePath(key)]
         v == loadVerdict(f)
     IN  /\ log' = IF v = "hit" THEN log \o <<"read", "memset">> ELSE Append(log, "read")
         /\ IF v = "hit"
            THEN /\ Returned(op.el, f.data, "disk", f.n)
                 /\ UNCHANGED cache
            ELSE /\ op' = [op EXCEPT !.pc = IF v \in {"invalid", "expired"} THEN "delete" ELSE "origin"]
                 /\ ret' = [ret EXCEPT !.verdict = v]
                 /\ last' = "none"
                 /\ UNCHANGED <<cache, parentMap>>
  /\ UNCHANGED <<clockVars, elements, disk, itemCache, nonTreeVars>>

\* loadFromCache: readFile, JSON.parse, timestamp and TTL checks; on a hit
\* fetchPageChildren stores the data in the memory layer and returns it
LoadFromCache ==
  /\ op.name = "getChildren" /\ op.pc = "readFile"
  /\ LET key == cacheKey(op.el.id, op.el.type)
         f == disk[getCachePath(key)]
         v == loadVerdict(f)
     IN  /\ log' = IF v = "hit" THEN log \o <<"read", "memset">> ELSE Append(log, "read")
         /\ IF v = "hit"
            THEN /\ cache' = [cache EXCEPT ![key] = Entry(f.data, f.n)]
                 /\ Returned(op.el, f.data, "disk", f.n)
            ELSE /\ op' = [op EXCEPT !.pc = IF v \in {"invalid", "expired"} THEN "delete" ELSE "origin"]
                 /\ ret' = [ret EXCEPT !.verdict = v]
                 /\ last' = "none"
                 /\ UNCHANGED <<cache, parentMap>>
  /\ UNCHANGED <<clockVars, elements, disk, itemCache, nonTreeVars>>

\* loadFromCache: await this.deleteCache(pageId); fs.rm may fail, which
\* deleteCache swallows
DeleteBadEntry ==
  /\ op.name = "getChildren" /\ op.pc = "delete"
  /\ \E ok \in BOOLEAN :
       disk' = IF ok THEN [disk EXCEPT ![getCachePath(cacheKey(op.el.id, op.el.type))] = NoFile]
               ELSE disk
  /\ op' = [op EXCEPT !.pc = "origin"]
  /\ log' = Append(log, "delete")
  /\ last' = "none"
  /\ UNCHANGED <<clockVars, elements, cache, parentMap, itemCache, ret, nonTreeVars>>

\* fetchDatabaseRecords / getPageBlocks + extractPagesAndDatabases; both catch
\* a failing request and answer []
FetchOrigin ==
  /\ op.name = "getChildren" /\ op.pc = "origin"
  /\ \E ok \in BOOLEAN : \E d \in originChildren(op.el) :
       /\ (~ok => d = <<>>)
       /\ op' = [op EXCEPT !.pc = "save", !.data = d, !.flag = ~ok]
       /\ itemCache' = itemCacheSet(itemCache, d)
  /\ log' = Append(log, "origin")
  /\ last' = "none"
  /\ UNCHANGED <<clockVars, elements, cache, disk, parentMap, ret, nonTreeVars>>

\* saveToCache (a failing writeFile is swallowed), this.cache.set, return
SaveAndReturn ==
  /\ op.name = "getChildren" /\ op.pc = "save"
  /\ LET key == cacheKey(op.el.id, op.el.type)
     IN  /\ \E ok \in BOOLEAN :
              /\ disk' = IF ok THEN [disk EXCEPT ![getCachePath(key)] = File("num", now, op.data)]
                         ELSE disk
              /\ ret' = [ret EXCEPT !.served = "origin", !.data = op.data, !.at = now,
                                    !.wrote = ok, !.originFailed = op.flag]
         /\ cache' = [cache EXCEPT ![key] = Entry(op.data, now)]
         /\ parentMap' = parentMapSet(parentMap, op.data, op.el)
  /\ op' = Idle
  /\ last' = "getChildren"
  /\ log' = log \o <<"write", "memset">>
  /\ UNCHANGED <<clockVars, elements, itemCache, nonTreeVars>>

\* refreshItem(pageId): both keys leave the memory layer; the caller passes
\* the id as it holds it, in either spelling
RefreshItemCall ==
  /\ op.name = "idle"
  /\ \E id \in ElemIds :
       /\ cache' = [cache EXCEPT ![cacheKey(id, "page")] = NoEntry,
                                 ![cacheKey(id, "database")] = NoEntry]
       /\ op' = [Idle EXCEPT !.name = "refreshItem", !.pc = "del1", !.el = [id |-> id, type |-> "page"]]
  /\ last' = "none" /\ log' = <<>> /\ ret' = NoRet
  /\ UNCHANGED <<clockVars, elements, disk, parentMap, itemCache, nonTreeVars>>

\* refreshItem: await this.deleteCache(`page:${pageId}`)
RefreshItemDeletePage ==
  /\ op.name = "refreshItem" /\ op.pc = "del1"
  /\ \E ok \in BOOLEAN :
       /\ disk' = IF ok THEN [disk EXCEPT ![getCachePath(cacheKey(op.el.id, "page"))] = NoFile]
                  ELSE disk
       /\ op' = [op EXCEPT !.pc = "del2", !.flag = ~ok]
  /\ last' = "none"
  /\ UNCHANGED <<clockVars, elements, cache, parentMap, itemCache, log, ret, nonTreeVars>>

\* refreshItem: await this.deleteCache(`database:${pageId}`), then the change event
RefreshItemDeleteDatabase ==
  /\ op.name = "refreshItem" /\ op.pc = "del2"
  /\ \E ok \in BOOLEAN :
       /\ disk' = IF ok THEN [disk EXCEPT ![getCachePath(cacheKey(op.el.id, "database"))] = NoFile]
                  ELSE disk
       /\ ret' = [ret EXCEPT !.el = op.el, !.wrote = (ok /\ ~op.flag)]
  /\ op' = Idle
  /\ last' = "refreshItem"
  /\ UNCHANGED <<clockVars, elements, cache, parentMap, itemCache, log, nonTreeVars>>

\* refresh(): the three maps are cleared
RefreshCall ==
  /\ op.name = "idle"
  /\ cache' = [k \in MemKeys |-> NoEntry]
  /\ parentMap' = {}
  /\ itemCache' = {}
  /\ op' = [Idle EXCEPT !.name = "refresh", !.pc = "rm"]
  /\ last' = "none" /\ log' = <<>> /\ ret' = NoRet
  /\ UNCHANGED <<clockVars, elements, disk, nonTreeVars>>

\* refresh(): fs.rm(cacheDir, recursive) and mkdir; a failure is swallowed and
\* may leave any of the files behind
RefreshRemoveDir ==
  /\ op.name = "refresh" /\ op.pc = "rm"
  /\ \E ok \in BOOLEAN : \E left \in SUBSET { q \in Paths : disk[q].kind # "none" } :
       /\ (ok => left = {})
       /\ disk' = [q \in Paths |-> IF q \in left THEN disk[q] ELSE NoFile]
       /\ ret' = [NoRet EXCEPT !.wrote = ok]
  /\ op' = Idle
  /\ last' = "refresh"
  /\ UNCHANGED <<clockVars, elements, cache, parentMap, itemCache, log, nonTreeVars>>

TreeNext ==
  \/ Tick
  \/ GetRoot
  \/ GetChildrenCall
  \/ LoadFromCache
  \/ DeleteBadEntry
  \/ FetchOrigin
  \/ SaveAndReturn
  \/ RefreshItemCall
  \/ RefreshItemDeletePage
  \/ RefreshItemDeleteDatabase
  \/ RefreshCall
  \/ RefreshRemoveDir

SpecTree == TreeInit /\ [][TreeNext]_vars

\* one page known to the tree under both spellings of its id: block ids and
\* mention ids carry the hyphens, ids cut out of a link href by
\* /([a-f0-9]{32})/ do not (extractPageIdFromHref); the cache directory is empty
HyphenInit ==
  /\ AsmIdle /\ PageIdle /\ ChainIdle /\ UiIdle /\ ConvIdle
  /\ now = 1 /\ cacheTtlDays = 1
  /\ cache = [k \in MemKeys |-> NoEntry]
  /\ disk = [q \in Paths |-> NoFile]
  /\ parentMap = {} /\ itemCache = {}
  /\ elements = [id : ElemIds, type : {"page"}]
  /\ op = Idle /\ log = <<>> /\ ret = NoRet /\ last = "none"

SpecHyphen == HyphenInit /\ [][TreeNext]_vars

(***************************************************************************)
(* A refresh that runs while a getChildren call is in flight: the steps of *)
(* refresh() and refreshItem() taken at the awaits of fetchPageChildren    *)
(***************************************************************************)
raceFrame ==
  <<asmVars, pageVars, chainVars, uiVars, viewVars, inlineVars, renderVars, scanVars, tokenVars>>

\* the getChildren call in flight has its answer from the origin and waits
\* for saveToCache
fetchedBefore == op.name = "getChildren" /\ op.pc = "save"

\* refresh() up to its first await: the three maps are cleared
RaceRefreshCall ==
  /\ rf.pc = "idle" /\ op.name = "getChildren"
  /\ cache' = [k \in MemKeys |-> NoEntry]
  /\ parentMap' = {}
  /\ itemCache' = {}
  /\ rf' = [RfIdle EXCEPT !.pc = "rm", !.kind = "refresh", !.stale = fetchedBefore]
  /\ UNCHANGED <<clockVars, elements, disk, op, log, ret, last, raceFrame>>

\* refresh(): fs.rm(cacheDir, recursive) and mkdir; a failure is swallowed
RaceRefreshRemoveDir ==
  /\ rf.pc = "rm"
  /\ \E ok \in BOOLEAN : \E left \in SUBSET { q \in Paths : disk[q].kind # "none" } :
       /\ (ok => left = {})
       /\ disk' = [q \in Paths |-> IF q \in left THEN disk[q] ELSE NoFile]
       /\ rf' = [rf EXCEPT !.pc = "done", !.ok = ok]
  /\ UNCHANGED <<clockVars, elements, cache, parentMap, itemCache, op, log, ret, last, raceFrame>>

\* refreshItem(pageId) up to its first await: both keys leave the memory layer
RaceRefreshItemCall ==
  /\ rf.pc = "idle" /\ op.name = "getChildren"
  /\ \E id \in ElemIds :
       /\ cache' = [cache EXCEPT ![cacheKey(id, "page")] = NoEntry,
                                 ![cacheKey(id, "database")] = NoEntry]
       /\ rf' = [RfIdle EXCEPT !.pc = "del1", !.kind = "refreshItem", !.id = id,
                               !.stale = fetchedBefore]
  /\ UNCHANGED <<clockVars, elements, disk, parentMap, itemCache, op, log, ret, last, raceFrame>>

\* refreshItem: await this.deleteCache(`page:${pageId}`)
RaceRefreshItemDeletePage ==
  /\ rf.pc = "del1"
  /\ \E ok \in BOOLEAN :
       /\ disk' = IF ok THEN [disk EXCEPT ![getCachePath(cacheKey(rf.id, "page"))] = NoFile]
                  ELSE disk
       /\ rf' = [rf EXCEPT !.pc = "del2", !.ok = ok]
  /\ UNCHANGED <<clockVars, elements, cache, parentMap, itemCache, op, log, ret, last, raceFrame>>

\* refreshItem: await this.deleteCache(`database:${pageId}`), then the change event
RaceRefreshItemDeleteDatabase ==
  /\ rf.pc = "del2"
  /\ \E ok \in BOOLEAN :
       /\ disk' = IF ok THEN [disk EXCEPT ![getCachePath(cacheKey(rf.id, "database"))] = NoFile]
                  ELSE disk
       /\ rf' = [rf EXCEPT !.pc = "done", !.ok = (ok /\ rf.ok)]
  /\ UNCHANGED <<clockVars, elements, cache, parentMap, itemCache, op, log, ret, last, raceFrame>>

\* the one getChildren(element) call of the race
RaceGetChildrenCall ==
  /\ rf.pc = "idle" /\ last # "getChildren"
  /\ GetChildrenCall

RaceNext ==
  \/ RaceGetChildrenCall
  \/ LoadFromCache
  \/ DeleteBadEntry
  \/ FetchOrigin
  \/ SaveAndReturn
  \/ RaceRefreshCall
  \/ RaceRefreshRemoveDir
  \/ RaceRefreshItemCall
  \/ RaceRefreshItemDeletePage
  \/ RaceRefreshItemDeleteDatabase

SpecRace == TreeInit /\ [][RaceNext]_vars

(***************************************************************************)
(* Page cache: createOrShowPage of NotionWebviewPanelSerializer            *)
(***************************************************************************)
\* files a previous session may have left in pageCacheDir
InitPageFiles ==
  { NoPageFile, PageGarbage, PageFile("missing", 0, St("s1")), PageFile("nan", 0, St("s1")),
    PageFile("num", 1, St("s1")) }

PageInit ==
  /\ AsmIdle /\ TreeQuiet /\ itemCache = {} /\ ChainIdle /\ UiIdle /\ ConvIdle
  /\ now = 1
  /\ cacheTtlDays \in {0, 1}
  /\ pageDisk \in [PageIds -> InitPageFiles]
  /\ webviews = {} /\ panels = [i \in PageIds |-> NoPanel]
  /\ pop = PageOpIdle /\ pret = NoPageRet /\ plast = "none"

nonPageVars == <<asmVars, clockVars, treeVars, chainVars, uiVars, convVars>>

\* createOrShowPage(id): a page that has a panel is revealed, else the file is read
CreateOrShowPageCall ==
  /\ pop.name = "idle"
  /\ \E id \in PageIds :
       IF id \in webviews
       THEN /\ pop' = PageOpIdle
            /\ plast' = "createOrShowPage"
            /\ pret' = [NoPageRet EXCEPT !.served = "panel", !.id = id]
       ELSE /\ pop' = [PageOpIdle EXCEPT !.name = "createOrShowPage", !.pc = "readFile", !.id = id]
            /\ plast' = "none"
            /\ pret' = [NoPageRet EXCEPT !.id = id]
  /\ UNCHANGED <<pageDisk, webviews, panels, nonPageVars>>

\* loadPageFromDiskCache: readFile, JSON.parse, the age test
LoadPageFromDiskCache ==
  /\ pop.name = "createOrShowPage" /\ pop.pc = "readFile"
  /\ LET f == pageDisk[pop.id]
     IN  /\ pret' = [pret EXCEPT !.found = pageEntryClass(f), !.stored = f.state]
         /\ pop' = IF f.kind # "entry" THEN [pop EXCEPT !.pc = "fetch"]
                   ELSE IF pageExpired(f) THEN [pop EXCEPT !.pc = "unlink"]
                   ELSE [pop EXCEPT !.pc = "resave", !.state = f.state]
  /\ plast' = "none"
  /\ UNCHANGED <<pageDisk, webviews, panels, nonPageVars>>

\* loadPageFromDiskCache: await fs.unlink(cacheFile).catch(() => {}); return null
UnlinkExpired ==
  /\ pop.name = "createOrShowPage" /\ pop.pc = "unlink"
  /\ \E ok \in BOOLEAN :
       /\ pageDisk' = IF ok THEN [pageDisk EXCEPT ![pop.id] = NoPageFile] ELSE pageDisk
       /\ pret' = [pret EXCEPT !.unlinked = TRUE, !.deleted = ok]
  /\ pop' = [pop EXCEPT !.pc = "fetch"]
  /\ plast' = "none"
  /\ UNCHANGED <<webviews, panels, nonPageVars>>

\* loadPageFromDiskCache on a hit: savePageToDiskCache(id, cacheData.state)
\* (a failing write is swallowed); createOrShowPage then opens the panel
ResaveOnHit ==
  /\ pop.name = "createOrShowPage" /\ pop.pc = "resave"
  /\ \E ok \in BOOLEAN :
       /\ pageDisk' = IF ok THEN [pageDisk EXCEPT ![pop.id] = PageFile("num", now, pop.state)]
                      ELSE pageDisk
       /\ pret' = [pret EXCEPT !.served = "disk", !.state = pop.state, !.wrote = ok]
  /\ webviews' = webviews \cup {pop.id}
  /\ panels' = [panels EXCEPT ![pop.id] = [state |-> pop.state, refreshed |-> NoState]]
  /\ pop' = PageOpIdle
  /\ plast' = "createOrShowPage"
  /\ UNCHANGED nonPageVars

\* fetchDataAndGetPageState(id); a rejection leaves createOrShowPage
FetchDataAndGetPageState ==
  /\ pop.name = "createOrShowPage" /\ pop.pc = "fetch"
  /\ \E ok \in BOOLEAN : \E st \in PageStates :
       IF ok
       THEN /\ pop' = [pop EXCEPT !.pc = "save", !.state = st]
            /\ pret' = [pret EXCEPT !.fetched = TRUE]
            /\ plast' = "none"
       ELSE /\ pop' = PageOpIdle
            /\ pret' = [pret EXCEPT !.fetched = TRUE, !.served = "error"]
            /\ plast' = "createOrShowPage"
  /\ UNCHANGED <<pageDisk, webviews, panels, nonPageVars>>

\* savePageToDiskCache(id, state) after the fetch, then the panel is opened
SavePageToDiskCache ==
  /\ pop.name = "createOrShowPage" /\ pop.pc = "save"
  /\ \E ok \in BOOLEAN :
       /\ pageDisk' = IF ok THEN [pageDisk EXCEPT ![pop.id] = PageFile("num", now, pop.state)]
                      ELSE pageDisk
       /\ pret' = [pret EXCEPT !.served = "origin", !.state = pop.state, !.wrote = ok]
  /\ webviews' = webviews \cup {pop.id}
  /\ panels' = [panels EXCEPT ![pop.id] = [state |-> pop.state, refreshed |-> NoState]]
  /\ pop' = PageOpIdle
  /\ plast' = "createOrShowPage"
  /\ UNCHANGED nonPageVars

\* webviewPanel.onDidDispose: the panel leaves this.cache
DisposePanel ==
  /\ pop.name = "idle"
  /\ \E id \in webviews :
       /\ webviews' = webviews \ {id}
       /\ panels' = [panels EXCEPT ![id] = NoPanel]
  /\ plast' = "none" /\ pret' = NoPageRet
  /\ UNCHANGED <<pageDisk, pop, nonPageVars>>

PageNext ==
  \/ Tick
  \/ CreateOrShowPageCall
  \/ LoadPageFromDiskCache
  \/ UnlinkExpired
  \/ ResaveOnHit
  \/ FetchDataAndGetPageState
  \/ SavePageToDiskCache
  \/ DisposePanel

SpecPage == PageInit /\ [][PageNext]_vars

\* refreshActivePage(): the active panel is looked up in this.cache
RefreshActivePageCall ==
  /\ pop.name = "idle"
  /\ \E id \in webviews :
       pop' = [PageOpIdle EXCEPT !.name = "refreshActivePage", !.pc = "fetch", !.id = id]
  /\ plast' = "none" /\ pret' = NoPageRet
  /\ UNCHANGED <<pageDisk, webviews, panels, nonPageVars>>

\* refreshActivePage: await this.fetchDataAndGetPageState(id); a rejection
\* leaves the command
RefreshFetch ==
  /\ pop.name = "refreshActivePage" /\ pop.pc = "fetch"
  /\ \E ok \in BOOLEAN : \E st \in PageStates :
       IF ok
       THEN /\ pop' = [pop EXCEPT !.pc = "save", !.state = st]
            /\ pret' = [pret EXCEPT !.id = pop.id, !.fetched = TRUE]
            /\ plast' = "none"
       ELSE /\ pop' = PageOpIdle
            /\ pret' = [pret EXCEPT !.id = pop.id, !.fetched = TRUE, !.served = "error"]
            /\ plast' = "refreshActivePage"
  /\ UNCHANGED <<pageDisk, webviews, panels, nonPageVars>>

\* refreshActivePage: savePageToDiskCache(id, state) (a failing write is
\* swallowed), renderWebview, and dataProvider.refreshItem(id), which drops
\* the children entries of the page from the hierarchy cache
RefreshSaveAndRender ==
  /\ pop.name = "refreshActivePage" /\ pop.pc = "save"
  /\ \E ok \in BOOLEAN :
       /\ pageDisk' = IF ok THEN [pageDisk EXCEPT ![pop.id] = PageFile("num", now, pop.state)]
                      ELSE pageDisk
       /\ pret' = [pret EXCEPT !.served = "origin", !.state = pop.state, !.wrote = ok]
       /\ panels' = [panels EXCEPT ![pop.id].refreshed = IF ok THEN pop.state ELSE @]
  /\ cache' = [cache EXCEPT ![cacheKey(pop.id, "page")] = NoEntry,
                            ![cacheKey(pop.id, "database")] = NoEntry]
  /\ \E gone \in SUBSET Types :
       disk' = [q \in Paths |->
                  IF q.id = normalizeId(pop.id) /\ q.type \in gone THEN NoFile ELSE disk[q]]
  /\ pop' = PageOpIdle
  /\ plast' = "refreshActivePage"
  /\ UNCHANGED <<webviews, asmVars, clockVars, chainVars, uiVars, convVars>>
  /\ UNCHANGED <<parentMap, itemCache, elements, op, log, ret, last>>

\* { ...state, viewModes: message.viewModes }: state is the parameter of
\* deserializeWebviewPanel, the state the panel was opened with
updatedState(panel, viewModes) == [panel.state EXCEPT !.viewModes = viewModes]

\* onDidReceiveMessage, command saveViewModes with view modes: the updated
\* state is written by savePageToDiskCache (a failing write is swallowed)
SaveViewModes ==
  /\ pop.name = "idle"
  /\ \E id \in webviews : \E m \in ViewModes : \E ok \in BOOLEAN :
       /\ pageDisk' = IF ok
                      THEN [pageDisk EXCEPT ![id] = PageFile("num", now, updatedState(panels[id], m))]
                      ELSE pageDisk
       /\ pret' = [NoPageRet EXCEPT !.id = id, !.state = updatedState(panels[id], m),
                                    !.wrote = ok]
  /\ plast' = "saveViewModes"
  /\ UNCHANGED <<webviews, panels, pop, nonPageVars>>

PanelNext ==
  \/ PageNext
  \/ RefreshActivePageCall
  \/ RefreshFetch
  \/ RefreshSaveAndRender
  \/ SaveViewModes

\* the page cache with the commands of an open panel
SpecPanel == PageInit /\ [][PanelNext]_vars

(***************************************************************************)
(* Ancestor-chain walk: getAncestorChain                                   *)
(***************************************************************************)
\* items a previous getChildren may have left in this.itemCache
InitItemCaches == {{}} \cup { {[id |-> Id(n, TRUE), type |-> "page"]} : n \in Nodes }

ChainInit ==
  /\ AsmIdle /\ TreeQuiet /\ PageIdle /\ UiIdle /\ ConvIdle
  /\ now = 1 /\ cacheTtlDays = 1
  /\ origin \in Origins
  /\ itemCache \in InitItemCaches
  /\ walk = WalkIdle /\ cret = NoChainRet

nonChainVars == <<asmVars, clockVars, treeVars, pageVars, uiVars, convVars>>

RECURSIVE Reverse(_)
Reverse(q) == IF q = <<>> THEN <<>> ELSE Append(Reverse(Tail(q)), Head(q))

\* chain.reverse()
finishChain(chain) == Reverse(chain)

\* a cycle guard that compares the id as spelled
seenHasRaw(seen, currentId) == currentId \in seen
\* seen.has(normalizeId(currentId))
seenHas(seen, currentId) == normalizeId(currentId) \in seen

ReturnNull(why) ==
  /\ walk' = WalkIdle
  /\ cret' = [NoChainRet EXCEPT !.done = TRUE, !.pageId = walk.pageId, !.why = why,
                                !.guard = walk.guard + 1]

\* getAncestorChain(pageId, rootNormalized) up to the loop
GetAncestorChainCall ==
  /\ walk.pc = "idle"
  /\ \E pageId \in Requests :
       walk' = [WalkIdle EXCEPT !.pc = "loop", !.pageId = pageId, !.currentId = pageId]
  /\ cret' = NoChainRet
  /\ UNCHANGED <<origin, nonChainVars>>

\* one iteration of while (currentId && guard < 50)
ChainStep ==
  /\ walk.pc = "loop" /\ walk.currentId # NoId /\ walk.guard < MaxHops
  /\ LET normalized == normalizeId(walk.currentId)
         cached == { x \in itemCache : x.id = walk.currentId }
     IN  IF seenHas(walk.seen, walk.currentId)
         THEN ReturnNull("seen")
         ELSE \E fetchOk \in BOOLEAN :
                LET info == IF cached # {}
                            THEN [isNull |-> FALSE, item |-> CHOOSE x \in cached : TRUE,
                                  parentId |-> NoId]
                            ELSE IF fetchOk THEN fetchItemInfoWithParent(walk.currentId)
                            ELSE NoInfo
                    next == [walk EXCEPT !.guard = walk.guard + 1,
                                         !.seen = walk.seen \cup {normalized},
                                         !.chain = Append(walk.chain, info.item)]
                IN  IF info.isNull
                    THEN ReturnNull("fetchNull")
                    ELSE /\ cret' = cret
                         /\ walk' =
                              IF normalizeId(info.item.id) = rootNormalized
                              THEN [next EXCEPT !.pc = "after", !.why = "root"]
                              ELSE IF info.parentId = NoId
                              THEN [next EXCEPT !.pc = "after",
                                                !.why = IF cached # {} THEN "cached" ELSE "noParent"]
                              ELSE [next EXCEPT !.currentId = info.parentId]
  /\ UNCHANGED <<origin, nonChainVars>>

\* after the loop: null for an empty chain, else the chain reversed
ChainReturn ==
  /\ \/ walk.pc = "after"
     \/ walk.pc = "loop" /\ ~(walk.currentId # NoId /\ walk.guard < MaxHops)
  /\ cret' = [done |-> TRUE, isNull |-> (walk.chain = <<>>),
              chain |-> finishChain(walk.chain), pageId |-> walk.pageId,
              why |-> IF walk.pc = "after" THEN walk.why
                      ELSE IF walk.currentId = NoId THEN "empty" ELSE "hops",
              guard |-> walk.guard]
  /\ walk' = WalkIdle
  /\ UNCHANGED <<origin, nonChainVars>>

ChainNext ==
  \/ GetAncestorChainCall
  \/ ChainStep
  \/ ChainReturn

SpecChain == ChainInit /\ [][ChainNext]_vars

(***************************************************************************)
(* Operations the UI calls: ensureItemVisible, getChildren, getPageDataById *)
(* ensureItemVisible runs the provider's own getChildren and               *)
(* getAncestorChain; their actions are the ones above, taken while the     *)
(* call waits for them.                                                    *)
(***************************************************************************)
\* keys and files of the nodes of the workspace
VisKeys == [type : Types, id : { Id(n, TRUE) : n \in Nodes }]
VisPaths == { getCachePath(k) : k \in VisKeys }
VisOrigins == Origins \ {Ladder}

VisInit ==
  /\ AsmIdle /\ PageIdle /\ ConvIdle
  /\ now = 1 /\ cacheTtlDays = 1
  /\ cache = [k \in VisKeys |-> NoEntry]
  /\ disk = [q \in VisPaths |-> NoFile]
  /\ parentMap = {} /\ elements = {}
  /\ op = Idle /\ log = <<>> /\ ret = NoRet /\ last = "none"
  /\ origin \in VisOrigins
  /\ itemCache \in InitItemCaches
  /\ walk = WalkIdle /\ cret = NoChainRet
  /\ configured \in [api : BOOLEAN, root : BOOLEAN]
  /\ vis = VisIdle /\ uret = NoUiRet

\* no UI operation has been made or is in flight
UiFree == vis.pc = "idle" /\ op.name = "idle" /\ walk.pc = "idle" /\ ~uret.done

VisReturn(kind, item, matched) ==
  /\ vis' = VisIdle
  /\ uret' = [NoUiRet EXCEPT !.done = TRUE, !.name = "ensureItemVisible", !.kind = kind,
                             !.item = item, !.pageId = vis.pageId, !.chain = cret.chain,
                             !.matched = matched]

\* ensureItemVisible(pageId) up to await this.getChildren()
EnsureItemVisibleCall ==
  /\ UiFree
  /\ \E pageId \in Requests :
       IF ~configured.api \/ ~configured.root
       THEN /\ vis' = VisIdle
            /\ uret' = [NoUiRet EXCEPT !.done = TRUE, !.name = "ensureItemVisible",
                                       !.kind = "null", !.pageId = pageId]
       ELSE /\ vis' = [VisIdle EXCEPT !.pc = "root", !.pageId = pageId]
            /\ uret' = NoUiRet
  /\ UNCHANGED <<configured, asmVars, clockVars, treeVars, pageVars, chainVars, convVars>>

\* ensureItemVisible: await this.getChildren() puts the root in itemCache
VisGetRoot ==
  /\ vis.pc = "root" /\ last # "getRoot"
  /\ GetRoot

\* ensureItemVisible: this.getAncestorChain(pageId, rootNormalized) is called
VisCallChain ==
  /\ vis.pc = "root" /\ last = "getRoot"
  /\ vis' = [vis EXCEPT !.pc = "walk"]
  /\ walk' = [WalkIdle EXCEPT !.pc = "loop", !.pageId = vis.pageId, !.currentId = vis.pageId]
  /\ cret' = NoChainRet
  /\ UNCHANGED <<configured, uret, origin, asmVars, clockVars, treeVars, pageVars, convVars>>

VisChainStep ==
  /\ vis.pc = "walk"
  /\ ChainStep

VisChainReturn ==
  /\ vis.pc = "walk"
  /\ ChainReturn

\* getItemById(pageId) ?? chain[chain.length - 1]
visibleItem ==
  IF \E x \in itemCache : x.id = vis.pageId
  THEN CHOOSE x \in itemCache : x.id = vis.pageId
  ELSE cret.chain[Len(cret.chain)]

\* ensureItemVisible: the chain is back; null, or the walk down begins
VisAfterChain ==
  /\ vis.pc = "walk" /\ cret.done
  /\ IF cret.isNull \/ Len(cret.chain) = 0
     THEN VisReturn("null", NoItem, 0) /\ UNCHANGED <<elements, last>>
     ELSE IF Len(cret.chain) = 1
     THEN VisReturn("item", visibleItem, 0) /\ UNCHANGED <<elements, last>>
     ELSE /\ vis' = [vis EXCEPT !.pc = "expand", !.i = 1]
          /\ elements' = {cret.chain[1]}
          /\ last' = "none"
          /\ uret' = uret
  /\ UNCHANGED <<configured, asmVars, clockVars, pageVars, chainVars, convVars>>
  /\ UNCHANGED <<cache, disk, parentMap, itemCache, op, log, ret>>

\* ensureItemVisible: await this.getChildren(parent), through the cache layers
VisGetChildren ==
  /\ vis.pc = "expand" /\ last # "getChildren"
  /\ GetChildrenCall

VisLoadFromCache ==
  /\ vis.pc = "expand"
  /\ LoadFromCache

VisFetchOrigin ==
  /\ vis.pc = "expand"
  /\ FetchOrigin

VisSaveAndReturn ==
  /\ vis.pc = "expand"
  /\ SaveAndReturn

\* ensureItemVisible: children.find((item) => item.id === child.id)
VisMatch ==
  /\ vis.pc = "expand" /\ last = "getChildren" /\ op.name = "idle"
  /\ LET child == cret.chain[vis.i + 1]
         match == \E k \in 1..Len(ret.data) : ret.data[k].id = child.id
     IN  IF ~match
         THEN VisReturn("null", NoItem, vis.i - 1) /\ elements' = {}
         ELSE IF vis.i + 1 = Len(cret.chain)
         THEN VisReturn("item", visibleItem, vis.i) /\ elements' = {}
         ELSE /\ vis' = [vis EXCEPT !.i = vis.i + 1]
              /\ elements' = {cret.chain[vis.i + 1]}
              /\ uret' = uret
  /\ last' = "none"
  /\ UNCHANGED <<configured, asmVars, clockVars, pageVars, chainVars, convVars>>
  /\ UNCHANGED <<cache, disk, parentMap, itemCache, op, log, ret>>

\* getChildren(element?) of the tree provider without an API key: return []
GetChildrenNotConfigured ==
  /\ UiFree /\ ~configured.api
  /\ uret' = [NoUiRet EXCEPT !.done = TRUE, !.name = "getChildren", !.kind = "list"]
  /\ UNCHANGED <<configured, vis, asmVars, clockVars, treeVars, pageVars, chainVars, convVars>>

\* pages.retrieve preferred to databases.retrieve, both awaited together
\* (Promise.allSettled)
settledKind(pageOk, dbOk) ==
  IF pageOk THEN "page" ELSE IF dbOk THEN "database" ELSE "none"

\* the database is tried first and wins
retrieveKindDatabaseFirst(pageOk, dbOk) ==
  IF dbOk THEN "database" ELSE IF pageOk THEN "page" ELSE "none"
\* try pages.retrieve; in its catch try databases.retrieve
retrieveKind(pageOk, dbOk) ==
  IF pageOk THEN "page" ELSE IF dbOk THEN "database" ELSE "none"

\* getPageDataById(id): throws without an API key; else the id is resolved as
\* page or database and converted (the conversion may throw)
GetPageDataById ==
  /\ UiFree
  /\ \E id \in Requests \ {NoId} : \E pageOk \in BOOLEAN, dbOk \in BOOLEAN, convOk \in BOOLEAN :
       LET k == settledKind(pageOk, dbOk)
       IN  uret' =
             IF ~configured.api
             THEN [NoUiRet EXCEPT !.done = TRUE, !.name = "getPageDataById", !.kind = "threw",
                                  !.pageId = id, !.notConfigured = TRUE]
             ELSE [NoUiRet EXCEPT !.done = TRUE, !.name = "getPageDataById",
                                  !.kind = IF k = "none" \/ ~convOk THEN "threw" ELSE "value",
                                  !.item = [id |-> id, type |-> k], !.pageId = id,
                                  !.pageOk = pageOk, !.dbOk = dbOk, !.dbTried = TRUE]
  /\ UNCHANGED <<configured, vis, asmVars, clockVars, treeVars, pageVars, chainVars, convVars>>

\* fetchPageInfo(pageId) and fetchItemInfoWithParent(pageId): the id is looked
\* up as a page, then as a database; null when neither answers
FetchPageInfo ==
  /\ UiFree /\ configured.api
  /\ \E name \in {"fetchPageInfo", "fetchItemInfoWithParent"} :
     \E id \in Requests \ {NoId} : \E pageOk \in BOOLEAN, dbOk \in BOOLEAN :
       LET k == retrieveKind(pageOk, dbOk)
       IN  uret' = [NoUiRet EXCEPT !.done = TRUE, !.name = name,
                                   !.kind = IF k = "none" THEN "null" ELSE "item",
                                   !.item = [id |-> Id(id.h, TRUE), type |-> k], !.pageId = id,
                                   !.pageOk = pageOk, !.dbOk = dbOk, !.dbTried = ~pageOk]
  /\ UNCHANGED <<configured, vis, asmVars, clockVars, treeVars, pageVars, chainVars, convVars>>

VisNext ==
  \/ EnsureItemVisibleCall
  \/ VisGetRoot
  \/ VisCallChain
  \/ VisChainStep
  \/ VisChainReturn
  \/ VisAfterChain
  \/ VisGetChildren
  \/ VisLoadFromCache
  \/ VisFetchOrigin
  \/ VisSaveAndReturn
  \/ VisMatch

SpecVisible == VisInit /\ [][VisNext]_vars

\* the workspace in which each node is a page under the node before it and
\* node 1, the root, is at the top
Straight ==
  [ladder |-> FALSE, parentOf |-> [n \in Nodes |-> n - 1], kind |-> [n \in Nodes |-> "page"]]

\* every UI operation, in one workspace
ClientInit ==
  /\ VisInit
  /\ origin = Straight /\ itemCache = {}

ClientNext ==
  \/ VisNext
  \/ GetChildrenNotConfigured
  \/ GetPageDataById
  \/ FetchPageInfo

SpecClient == ClientInit /\ [][ClientNext]_vars

(***************************************************************************)
(* View kind of a database: detectDateProperty and its copy in             *)
(* collectInlineDbData                                                     *)
(***************************************************************************)
RowLists ==
  UNION { UNION { [1..n -> RowsOf(schema)] : n \in 0..MaxRows } : schema \in Schemas }

ViewInit ==
  /\ AsmIdle /\ TreeIdle /\ PageIdle /\ ChainIdle /\ UiIdle /\ InlineIdle /\ RenderIdle /\ RaceIdle /\ ScanIdle /\ TokenIdle
  /\ rows \in RowLists
  /\ view = NoView

\* (propValue as any).type
propType(cell) == IF cell = "text" THEN "text" ELSE "date"
\* prop && prop.type === "date" && prop.date?.start
hasDateValue(cell) == cell \in {"start", "range"}
\* prop && prop.type === "date" && prop.date?.end !== null; with date: null
\* the left side is undefined, which is not null
hasDateRange(cell) == cell \in {"range", "nodate"}

\* the first date property of the first row that has a value in some row
\* (0: none), and the view kind read off that column
dateColumns(rs) ==
  { c \in 1..Len(rs[1]) :
      /\ propType(rs[1][c]) = "date"
      /\ \E k \in 1..Len(rs) : hasDateValue(rs[k][c]) }
lastOf(S) == CHOOSE c \in S : \A d \in S : c >= d
firstOf(S) == CHOOSE c \in S : \A d \in S : c <= d
viewOf(rs, c) ==
  IF \E k \in 1..Len(rs) : hasDateRange(rs[k][c]) THEN "timeline" ELSE "calendar"

detectDateProperty(rs) ==
  IF rs = <<>> THEN [viewType |-> "table", datePropertyName |-> 0]
  ELSE IF dateColumns(rs) = {} THEN [viewType |-> "table", datePropertyName |-> 0]
  ELSE [viewType |-> viewOf(rs, firstOf(dateColumns(rs))),
        datePropertyName |-> firstOf(dateColumns(rs))]

\* collectInlineDbData: datePropertyName and viewType of a descriptor
inlineViewType(rs) ==
  LET datePropertyName == IF dateColumns(rs) = {} THEN 0 ELSE firstOf(dateColumns(rs))
  IN  [viewType |-> IF datePropertyName # 0 THEN viewOf(rs, datePropertyName) ELSE "table",
       datePropertyName |-> datePropertyName]

\* convertDatabaseToMarkdownAndTable: detectDateProperty(rows)
DetectDateProperty ==
  /\ ~view.done
  /\ view' = [done |-> TRUE, fn |-> "detectDateProperty",
              viewType |-> detectDateProperty(rows).viewType,
              datePropertyName |-> detectDateProperty(rows).datePropertyName]
  /\ UNCHANGED <<rows, inlineVars, renderVars, raceVars, scanVars, tokenVars, asmVars, clockVars, treeVars, pageVars, chainVars, uiVars>>

\* collectInlineDbData, for rows.length > 0
CollectViewType ==
  /\ ~view.done /\ Len(rows) > 0
  /\ view' = [done |-> TRUE, fn |-> "collectInlineDbData",
              viewType |-> inlineViewType(rows).viewType,
              datePropertyName |-> inlineViewType(rows).datePropertyName]
  /\ UNCHANGED <<rows, inlineVars, renderVars, raceVars, scanVars, tokenVars, asmVars, clockVars, treeVars, pageVars, chainVars, uiVars>>

ViewNext ==
  \/ DetectDateProperty
  \/ CollectViewType

SpecView == ViewInit /\ [][ViewNext]_vars

(***************************************************************************)
(* Inline database resolver: collectInlineDbData with the callbacks the    *)
(* client passes (queryDatabaseRows, getDatabaseInfo)                      *)
(***************************************************************************)
DbIds == {1, 2}
\* what the origin answers for one database: databases.retrieve (inline,
\* full page, or an error) and dataSources.query (rows, or an error)
InlineRowSets == {<<>>, << <<"text">> >>, << <<"range">>, <<"start">> >>}
RowAnswers ==
  {[ok |-> TRUE, rows |-> rs] : rs \in InlineRowSets} \cup {[ok |-> FALSE, rows |-> <<>>]}
DbAnswers == [meta : {"inline", "full", "fail"}, rows : RowAnswers]

Docs == UNION { [1..n -> DbIds] : n \in 0..MaxPlaceholders }

InlineInit ==
  /\ AsmIdle /\ TreeIdle /\ PageIdle /\ ChainIdle /\ ViewIdle /\ RenderIdle /\ RaceIdle /\ ScanIdle /\ TokenIdle
  /\ vis = VisIdle /\ uret = NoUiRet
  /\ configured \in [api : BOOLEAN, root : {TRUE}]
  /\ doc \in Docs
  /\ hasInfo \in BOOLEAN
  /\ env \in [DbIds -> DbAnswers]
  /\ inl = InlIdle

\* renderChildDatabase: the token of one child_database block
placeholder(db) == [kind |-> "placeholder", db |-> db, title |-> "block"]
\* `📋 [${title}](/${databaseId})`
dbLink(db, title) == [kind |-> "link", db |-> db, title |-> title]

\* String.prototype.replace(fullMatch, link): the first occurrence only
firstAt(md, tok) ==
  IF \E k \in 1..Len(md) : md[k] = tok
  THEN CHOOSE k \in 1..Len(md) : md[k] = tok /\ \A j \in 1..(k - 1) : md[j] # tok
  ELSE 0
replaceFirst(md, tok, by) ==
  IF firstAt(md, tok) = 0 THEN md
  ELSE [md EXCEPT ![firstAt(md, tok)] = by]

\* NotionApiClient.getDatabaseInfo, configured: an API error is answered as
\* an inline database called "Untitled Database"
getDatabaseInfo(db) ==
  IF env[db].meta = "fail" THEN [is_inline |-> TRUE, title |-> "untitled"]
  ELSE [is_inline |-> env[db].meta = "inline", title |-> "meta"]

\* NotionApiClient.queryDatabaseRows, configured: an API error is answered as []
queryDatabaseRows(db) ==
  IF env[db].rows.ok THEN env[db].rows.rows ELSE <<>>

\* if (!isInline): a full-page database is replaced by a link and skipped
skipFullPageNever(isInline) == FALSE
skipFullPage(isInline) == ~isInline

\* inlineDatabases.push({ databaseId, title, viewType, datePropertyName })
pushDescriptorFront(list, d) == <<d>> \o list
pushDescriptor(list, d) == Append(list, d)

\* matchAll, the empty-match return, and the start of the loop
CollectInlineDbData ==
  /\ inl.pc = "idle"
  /\ inl' = [inl EXCEPT !.pc = IF doc = <<>> THEN "done" ELSE "loop",
                        !.i = 1,
                        !.markdown = [k \in 1..Len(doc) |-> placeholder(doc[k])]]
  /\ UNCHANGED <<doc, hasInfo, env, viewVars, renderVars, raceVars, scanVars, tokenVars, asmVars, clockVars, treeVars, pageVars,
                 chainVars, uiVars>>

\* one placeholder up to the row query: await getDatabaseInfo(databaseId), the
\* full-page branch, and the catch of a rejected callback
InlGetDatabaseInfo ==
  /\ inl.pc = "loop" /\ inl.i <= Len(doc)
  /\ LET db == doc[inl.i]
         tok == placeholder(db)
     IN  IF ~hasInfo
         THEN inl' = [inl EXCEPT !.pc = "rows", !.title = "block"]
         ELSE IF ~configured.api
         THEN inl' = [inl EXCEPT !.i = @ + 1,
                        !.markdown = replaceFirst(@, tok, dbLink(db, "block"))]
         ELSE IF skipFullPage(getDatabaseInfo(db).is_inline)
         THEN inl' = [inl EXCEPT !.i = @ + 1,
                        !.markdown = replaceFirst(@, tok, dbLink(db, getDatabaseInfo(db).title))]
         ELSE inl' = [inl EXCEPT !.pc = "rows", !.title = getDatabaseInfo(db).title]
  /\ UNCHANGED <<doc, hasInfo, env, viewVars, renderVars, raceVars, scanVars, tokenVars, asmVars, clockVars, treeVars, pageVars,
                 chainVars, uiVars>>

\* await queryRows(databaseId), the descriptor for rows.length > 0, and the
\* catch of a rejected callback
InlQueryRows ==
  /\ inl.pc = "rows"
  /\ LET db == doc[inl.i]
         rs == queryDatabaseRows(db)
     IN  IF ~configured.api
         THEN inl' = [inl EXCEPT !.pc = "loop", !.i = @ + 1,
                        !.rowCalls = Append(@, db),
                        !.markdown = replaceFirst(@, placeholder(db), dbLink(db, "block"))]
         ELSE IF Len(rs) > 0
         THEN inl' = [inl EXCEPT !.pc = "loop", !.i = @ + 1,
                        !.rowCalls = Append(@, db),
                        !.inlineDatabases = pushDescriptor(@,
                           [databaseId |-> db, title |-> inl.title,
                            viewType |-> inlineViewType(rs).viewType,
                            datePropertyName |-> inlineViewType(rs).datePropertyName])]
         ELSE inl' = [inl EXCEPT !.pc = "loop", !.i = @ + 1,
                        !.rowCalls = Append(@, db)]
  /\ UNCHANGED <<doc, hasInfo, env, viewVars, renderVars, raceVars, scanVars, tokenVars, asmVars, clockVars, treeVars, pageVars,
                 chainVars, uiVars>>

\* return { markdown: resultMarkdown, inlineDatabases }
InlReturn ==
  /\ inl.pc = "loop" /\ inl.i > Len(doc)
  /\ inl' = [inl EXCEPT !.pc = "done"]
  /\ UNCHANGED <<doc, hasInfo, env, viewVars, renderVars, raceVars, scanVars, tokenVars, asmVars, clockVars, treeVars, pageVars,
                 chainVars, uiVars>>

InlineNext ==
  \/ CollectInlineDbData
  \/ InlGetDatabaseInfo
  \/ InlQueryRows
  \/ InlReturn

SpecInline == InlineInit /\ [][InlineNext]_vars

(***************************************************************************)
(* blockToMarkdown on one block: the renderer table and the renderers      *)
(***************************************************************************)
\* keys of blockRenderers
Supported ==
  {"paragraph", "heading_1", "heading_2", "heading_3", "bulleted_list_item",
   "numbered_list_item", "to_do", "code", "image", "video", "embed", "child_page",
   "child_database", "quote", "callout", "toggle", "divider", "table", "table_row"}
\* type tags that are no key of blockRenderers: a block type without renderer,
\* and names every object literal inherits from Object.prototype
Inherited == {"toString", "constructor", "hasOwnProperty", "__proto__"}
TypeTags == Supported \cup {"synced_block"} \cup Inherited

\* the payload of the block (block[type]): well formed, absent, or with a
\* rich_text / cells / url the renderer cannot walk (not an array, not a string)
Payloads == {"ok", "missing", "malformed"}
\* block.embed.url: none, some site, a Google Maps URL that has a pb
\* parameter, one that has @lat,lng and no pb, one that has neither
UrlKinds == {"none", "other", "mapsPb", "mapsCoords", "mapsPlain"}

RenderBlocks ==
  { [isNull |-> FALSE, type |-> t, payload |-> p, url |-> "none"] :
      t \in TypeTags, p \in Payloads } \cup
  { [isNull |-> FALSE, type |-> "embed", payload |-> "ok", url |-> u] : u \in UrlKinds } \cup
  { [isNull |-> TRUE, type |-> "paragraph", payload |-> "missing", url |-> "none"] }

\* what a call gives back: an exception, or a value that is a string or not;
\* text tells the strings apart (stamp: the Date.now() written into the text)
Raised == [raised |-> TRUE, isString |-> FALSE, text |-> "none", stamp |-> 0]
Str(text, stamp) == [raised |-> FALSE, isString |-> TRUE, text |-> text, stamp |-> stamp]
Empty == Str("", 0)
NotAString == [raised |-> FALSE, isString |-> FALSE, text |-> "block", stamp |-> 0]

\* normalizeGoogleMapsEmbedUrl: the part of the URL that depends on the call
normalizeGoogleMapsEmbedUrl(u, t) == IF u = "mapsCoords" THEN t ELSE 0

\* renderEmbed
renderEmbed(b, t) ==
  IF b.url = "none" THEN Empty
  ELSE IF b.url \in {"mapsPb", "mapsCoords", "mapsPlain"}
  THEN Str("embed", normalizeGoogleMapsEmbedUrl(b.url, t))
  ELSE Str("embed", 0)

\* renderer(block) for an own key of blockRenderers; a renderer that walks a
\* malformed payload throws
ownRenderer(b, t) ==
  IF b.type = "divider" THEN Str("---", 0)
  ELSE IF b.type = "table" THEN Empty
  ELSE IF b.type \in {"child_page", "child_database"} THEN Str(b.type, 0)
  ELSE IF b.payload = "malformed" THEN Raised
  ELSE IF b.type = "embed" THEN renderEmbed(b, t)
  ELSE IF b.type \in {"video", "paragraph"} /\ b.payload = "missing" THEN Empty
  ELSE Str(b.type, 0)

\* blockRenderers[type](block) for a name found on Object.prototype
inheritedRenderer(b) ==
  IF b.type = "toString" THEN Str("[object Undefined]", 0)
  ELSE IF b.type = "constructor" THEN NotAString
  ELSE Raised

\* blockToMarkdown(block) called at time t
blockToMarkdownAt(b, t) ==
  IF b.isNull THEN Raised
  ELSE IF b.type \notin Supported \cup Inherited THEN Empty
  ELSE LET r == IF b.type \in Supported THEN ownRenderer(b, t) ELSE inheritedRenderer(b)
       IN  IF r.raised THEN Empty ELSE r

RenderInit ==
  /\ AsmIdle /\ TreeIdle /\ PageIdle /\ ChainIdle /\ UiIdle /\ ViewIdle /\ InlineIdle /\ RaceIdle /\ ScanIdle /\ TokenIdle
  /\ blk \in RenderBlocks
  /\ outs = <<>>

\* one call of blockToMarkdown(block)
BlockToMarkdownCall ==
  /\ Len(outs) < MaxRenders
  /\ outs' = Append(outs, blockToMarkdownAt(blk, now))
  /\ UNCHANGED <<blk, viewVars, inlineVars, raceVars, scanVars, tokenVars, asmVars, clockVars, treeVars, pageVars,
                 chainVars, uiVars>>

RenderNext ==
  \/ BlockToMarkdownCall
  \/ Tick

SpecRender == RenderInit /\ [][RenderNext]_vars

(***************************************************************************)
(* One origin scan of a page: fetchPageChildren over the blocks of the     *)
(* page, extractPagesAndDatabases and extractPageReferencesFromRichText    *)
(***************************************************************************)
\* text.href: absent, a URL holding 32 hex characters, a URL holding the
\* hyphenated form, or a URL without a page id
NoHref == [form |-> "none", h |-> 0]
\* a rich-text item: its page mention (NoId: none) and its href
PlainText == [mention |-> NoId, href |-> NoHref]
\* the API gives a page mention the hyphenated id and the href
\* https://www.notion.so/<32 hex characters>
PageMention(h) == [mention |-> Id(h, TRUE), href |-> [form |-> "plain32", h |-> h]]
Link(form, h) == [mention |-> NoId, href |-> [form |-> form, h |-> h]]
TextItems == {PlainText, PageMention(1), Link("dashed", 2), Link("other", 0)}
RichTexts == UNION { [1..n -> TextItems] : n \in 0..MaxTexts }

ScanBlock(type, id, richText) == [type |-> type, id |-> id, rich_text |-> richText]
\* block ids are hyphenated; an image block stands for the types without
\* a case in extractPagesAndDatabases
ScanBlocks ==
  { ScanBlock("child_page", Id(1, TRUE), <<>>), ScanBlock("child_database", Id(2, TRUE), <<>>),
    ScanBlock("image", Id(3, TRUE), <<>>) }
  \cup { ScanBlock("paragraph", Id(3, TRUE), rt) : rt \in RichTexts }
ScanPages == UNION { [1..n -> ScanBlocks] : n \in 0..MaxScanBlocks }

ScanInit ==
  /\ AsmIdle /\ TreeIdle /\ PageIdle /\ ChainIdle /\ UiIdle
  /\ ViewIdle /\ InlineIdle /\ RenderIdle /\ RaceIdle /\ TokenIdle
  /\ scan \in { [NoScan EXCEPT !.blocks = bs] : bs \in ScanPages }

\* text.mention?.page?.id || null
extractPageIdFromMention(text) == text.mention
\* the four patterns of extractPageIdFromHref: the id as the href spells it
extractPageIdFromHref(href) ==
  IF href.form = "plain32" THEN Id(href.h, FALSE)
  ELSE IF href.form = "dashed" THEN Id(href.h, TRUE)
  ELSE NoId

\* an id passes as new although it is in the set
isNewAlways(seenIds, id) == TRUE
\* !seenIds.has(id): the ids are compared as the strings they are
isNew(seenIds, id) == id \notin seenIds

\* if new: items.push(item); seenIds.add(item.id)
pushIfNew(acc, item) ==
  IF isNew(acc.seenIds, item.id)
  THEN [items |-> Append(acc.items, item), seenIds |-> acc.seenIds \cup {item.id}]
  ELSE acc
\* addPageIfNew(items, seenIds, pageId, plainText)
addPageIfNew(acc, pageId) == pushIfNew(acc, [id |-> pageId, type |-> "page"])

\* the loop of extractPageReferencesFromRichText from item k on
RECURSIVE richTextLoop(_, _, _)
richTextLoop(richTexts, k, acc) ==
  IF k > Len(richTexts) THEN acc
  ELSE LET text == richTexts[k]
           afterMention ==
             IF extractPageIdFromMention(text) # NoId
             THEN addPageIfNew(acc, extractPageIdFromMention(text))
             ELSE acc
           afterHref ==
             IF text.href.form = "none" THEN afterMention
             ELSE IF extractPageIdFromHref(text.href) = NoId THEN afterMention
             ELSE addPageIfNew(afterMention, extractPageIdFromHref(text.href))
       IN  richTextLoop(richTexts, k + 1, afterHref)
extractPageReferencesFromRichText(richTexts) ==
  richTextLoop(richTexts, 1, [items |-> <<>>, seenIds |-> {}]).items

\* the switch on block.type (synced_block is left out: it gives one page
\* item like child_page, with the id of the original block)
extractPagesAndDatabases(block) ==
  IF block.type = "child_page" THEN <<[id |-> block.id, type |-> "page"]>>
  ELSE IF block.type = "child_database" THEN <<[id |-> block.id, type |-> "database"]>>
  ELSE IF block.type = "paragraph" THEN extractPageReferencesFromRichText(block.rich_text)
  ELSE <<>>

\* for (const item of foundItems) from item k on
RECURSIVE foundItemsLoop(_, _, _)
foundItemsLoop(foundItems, k, acc) ==
  IF k > Len(foundItems) THEN acc
  ELSE foundItemsLoop(foundItems, k + 1, pushIfNew(acc, foundItems[k]))

\* fetchPageChildren on a page after both caches missed: getPageBlocks has
\* answered, children = [] and seenIds = new Set()
ScanStart ==
  /\ scan.pc = "idle"
  /\ scan' = [scan EXCEPT !.pc = "loop", !.i = 1, !.children = <<>>, !.seenIds = {}]
  /\ UNCHANGED <<viewVars, inlineVars, renderVars, raceVars, tokenVars, asmVars, clockVars,
                 treeVars, pageVars, chainVars, uiVars>>

\* one turn of for (const block of blocks)
ScanOneBlock ==
  /\ scan.pc = "loop" /\ scan.i <= Len(scan.blocks)
  /\ LET acc == foundItemsLoop(extractPagesAndDatabases(scan.blocks[scan.i]), 1,
                               [items |-> scan.children, seenIds |-> scan.seenIds])
     IN  scan' = [scan EXCEPT !.i = @ + 1, !.children = acc.items, !.seenIds = acc.seenIds]
  /\ UNCHANGED <<viewVars, inlineVars, renderVars, raceVars, tokenVars, asmVars, clockVars,
                 treeVars, pageVars, chainVars, uiVars>>

\* the loop is over: children is the list that is cached and returned
ScanReturn ==
  /\ scan.pc = "loop" /\ scan.i > Len(scan.blocks)
  /\ scan' = [scan EXCEPT !.pc = "done"]
  /\ UNCHANGED <<viewVars, inlineVars, renderVars, raceVars, tokenVars, asmVars, clockVars,
                 treeVars, pageVars, chainVars, uiVars>>

ScanNext ==
  \/ ScanStart
  \/ ScanOneBlock
  \/ ScanReturn

SpecScan == ScanInit /\ [][ScanNext]_vars

(***************************************************************************)
(* The placeholder token: written by renderChildDatabase, read back by the *)
(* pattern /__INLINE_DB_PLACEHOLDER__([^_]+)__(.+?)__/g of the resolver    *)
(* and of the webview.  Texts are sequences of characters.                 *)
(***************************************************************************)
\* the characters of the model: "a" is any character other than "_" and a
\* line break, "-" the hyphen of an id, "_" the underscore; "P" stands for
\* the literal __INLINE_DB_PLACEHOLDER__ and "U" for "Untitled Database"
US == "_"
TitleChars == {"a", US}
\* block.id: hex characters and hyphens
TokenIds == {<<"a">>, <<"a", "-", "a">>}
\* block.child_database.title, the empty title included
Titles == UNION { [1..n -> TitleChars] : n \in 0..MaxTitle }
\* the text that follows the token in the document
Tails == {<<>>, <<"a">>, <<US>>}

TokenInit ==
  /\ AsmIdle /\ TreeIdle /\ PageIdle /\ ChainIdle /\ UiIdle
  /\ ViewIdle /\ InlineIdle /\ RenderIdle /\ RaceIdle /\ ScanIdle
  /\ tk \in { [NoToken EXCEPT !.id = d, !.title = t, !.tail = r] :
                d \in TokenIds, t \in Titles, r \in Tails }

\* block.child_database?.title || "Untitled Database"
databaseTitle(title) == IF title = <<>> THEN <<"U">> ELSE title
\* `__INLINE_DB_PLACEHOLDER__${databaseId}__${databaseTitle}__`
renderChildDatabase(id, title) ==
  <<"P">> \o id \o <<US, US>> \o databaseTitle(title) \o <<US, US>>

\* text has "__" at positions k and k + 1
closesAt(text, k) == k + 1 <= Len(text) /\ text[k] = US /\ text[k + 1] = US
\* ([^_]+), greedy: the characters from position 2 up to the first "_"
idEnd(text) ==
  IF \E k \in 2..Len(text) : text[k] = US
  THEN (CHOOSE k \in 2..Len(text) : text[k] = US /\ \A j \in 2..(k - 1) : text[j] # US) - 1
  ELSE Len(text)
\* (.+?)__, lazy: the title ends at the first position, at least one
\* character in, that "__" follows
titleEnds(text, from) == { e \in from..Len(text) : closesAt(text, e + 1) }
firstEnd(S) == CHOOSE e \in S : \A x \in S : e <= x

\* placeholderPattern.exec on a text that begins with the token: whether it
\* matches, the two groups, and the length of fullMatch
NoMatch == [found |-> FALSE, databaseId |-> <<>>, parsedTitle |-> <<>>, consumed |-> 0]
placeholderPattern(text) ==
  IF Len(text) = 0 \/ text[1] # "P" THEN NoMatch
  ELSE IF idEnd(text) < 2 \/ ~closesAt(text, idEnd(text) + 1) THEN NoMatch
  ELSE IF titleEnds(text, idEnd(text) + 3) = {} THEN NoMatch
  ELSE LET from == idEnd(text) + 3
           e == firstEnd(titleEnds(text, from))
       IN  [found |-> TRUE, databaseId |-> SubSeq(text, 2, idEnd(text)),
            parsedTitle |-> SubSeq(text, from, e), consumed |-> e + 2]

\* blockToMarkdown on the child_database block: the token goes into the document
RenderChildDatabase ==
  /\ tk.pc = "idle"
  /\ tk' = [tk EXCEPT !.pc = "rendered",
                      !.text = renderChildDatabase(tk.id, tk.title) \o tk.tail]
  /\ UNCHANGED <<viewVars, inlineVars, renderVars, raceVars, scanVars, asmVars, clockVars,
                 treeVars, pageVars, chainVars, uiVars>>

\* markdown.matchAll(placeholderPattern): const [fullMatch, databaseId, title] = match
MatchPlaceholder ==
  /\ tk.pc = "rendered"
  /\ LET m == placeholderPattern(tk.text)
     IN  tk' = [tk EXCEPT !.pc = "matched", !.found = m.found, !.databaseId = m.databaseId,
                         !.parsedTitle = m.parsedTitle, !.consumed = m.consumed]
  /\ UNCHANGED <<viewVars, inlineVars, renderVars, raceVars, scanVars, asmVars, clockVars,
                 treeVars, pageVars, chainVars, uiVars>>

TokenNext ==
  \/ RenderChildDatabase
  \/ MatchPlaceholder

SpecToken == TokenInit /\ [][TokenNext]_vars

(***************************************************************************)
(* Properties of the hierarchy cache                                       *)
(***************************************************************************)
retKey == cacheKey(ret.el.id, ret.el.type)
retFile == disk[getCachePath(retKey)]

\* C5: an entry written at T under TTL D answers getChildren from the cache
\* before T+D and is a miss with a fresh origin fetch after T+D, also once the
\* entry sits in the memory layer: no call is served from a layer with data
\* older than the TTL, and no call goes to the origin past a fresh entry
C5_TtlBoundsEveryLayer ==
  last = "getChildren" =>
    /\ (ret.served \in {"memory", "disk"} => now - ret.at <= getCacheTtlMs)
    /\ (ret.served = "origin" => (~ret.memAtCall /\ ret.verdict # "hit"))

\* C6: a read-hit on a hierarchy cache file rewrites it with a fresh timestamp
C6_ReadHitRewritesTimestamp ==
  (last = "getChildren" /\ ret.served = "disk") =>
    (retFile.kind = "entry" /\ retFile.ts = "num" /\ retFile.n = now)

LayerOrder ==
  /\ (ret.served = "memory" <=> ret.memAtCall)
  /\ (ret.served = "memory" => log = <<"mem">>)
  /\ (ret.served = "disk" =>
        /\ log = <<"read", "memset">>
        /\ cache[retKey].has /\ cache[retKey].data = ret.data)
  /\ (ret.served = "origin" =>
        /\ log \in { <<"read", "origin", "write", "memset">>,
                     <<"read", "delete", "origin", "write", "memset">> }
        /\ cache[retKey].has /\ cache[retKey].data = ret.data)

\* C7 as stated: memory, then disk, then origin; when both miss the result of
\* the one origin fetch is in the disk layer and in the memory layer at return
C7_MissWritesBothLayers ==
  last = "getChildren" =>
    /\ LayerOrder
    /\ (ret.served = "origin" => retFile = File("num", now, ret.data))

\* C7 (amended): getChildren consults memory, disk, origin in that order; a
\* memory hit reads no file and fetches nothing; a disk hit fetches nothing and
\* populates the memory layer; when both miss the origin is fetched once, a
\* disk write of the result is attempted and the result is stored in the memory
\* layer before it is returned; the disk layer holds the result with the
\* current time as its timestamp unless that write failed (the failure is
\* swallowed and the result still returned)
C7_LayerOrder ==
  last = "getChildren" =>
    /\ LayerOrder
    /\ ((ret.served = "origin" /\ ret.wrote) => retFile = File("num", now, ret.data))

\* a call that missed both layers, deleted a bad file, fetched the origin and
\* wrote both layers
C7_Witness ==
  /\ last = "getChildren" /\ ret.served = "origin" /\ ret.wrote
  /\ log = <<"read", "delete", "origin", "write", "memset">>
  /\ ret.data = <<ChildItem>>

\* the spellings of the id of one node
SameNode(id) == { x \in ElemIds : normalizeId(x) = normalizeId(id) }
MemoryCleared(id) == \A x \in SameNode(id) : \A t \in Types : ~cache[cacheKey(x, t)].has
DiskCleared(id) == \A t \in Types : disk[getCachePath(cacheKey(id, t))] = NoFile

\* C9: after refreshItem(id), and after refresh(), with nothing else in
\* flight, neither layer holds a children entry of the node under either kind,
\* so the next getChildren for the node fetches the origin; refresh() also
\* leaves the parent map and the item cache empty
C9_RefreshLeavesNoEntry ==
  /\ (last = "refreshItem" => (MemoryCleared(ret.el.id) /\ DiskCleared(ret.el.id)))
  /\ (last = "refresh" =>
        /\ \A k \in MemKeys : ~cache[k].has
        /\ \A q \in Paths : disk[q] = NoFile
        /\ parentMap = {} /\ itemCache = {})
  /\ ((last = "getChildren" /\ ret.afterRefresh) => ret.served = "origin")

(***************************************************************************)
(* Properties of the page cache                                            *)
(***************************************************************************)
\* C8: a page cache file whose timestamp is missing or not a number, or whose
\* age exceeds the TTL, is treated like a miss: createOrShowPage fetches the
\* origin and a deletion of the file is attempted (its failure changes nothing)
C8_BadEntryIsMissAndDeleted ==
  (plast = "createOrShowPage" /\ pret.found \in {"missing", "nan", "expired"}) =>
    (pret.fetched /\ pret.unlinked /\ pret.served \in {"origin", "error"})

\* C28: when the origin fetch for the children of a node fails, the call
\* writes no children entry to the memory layer nor to the disk layer, so that
\* a later getChildren for the node asks the origin again
C28_FailedFetchNotCached ==
  (last = "getChildren" /\ ret.originFailed) =>
    /\ ~cache[retKey].has
    /\ ~ret.wrote

\* C29: for every interleaving of a getChildren call in flight with a
\* refreshItem of its node or a refresh(): once the refresh has completed and
\* the call has returned, neither layer holds children data of the node that
\* was fetched from the origin before the refresh began
C29_NoStaleDataAfterRefresh ==
  (rf.pc = "done" /\ op.name = "idle" /\ last = "getChildren" /\ rf.stale) =>
    /\ MemoryCleared(ret.el.id)
    /\ (rf.ok => retFile = NoFile)

pretFile == pageDisk[pret.id]

\* C26 as stated: reading a page entry younger than the TTL returns the stored
\* state and leaves the entry rewritten with the current time; reading an entry
\* older than the TTL deletes it, and createOrShowPage fetches the page from
\* the origin and stores a new entry
C26_SlidingTtl ==
  plast = "createOrShowPage" =>
    /\ (pret.found = "fresh" =>
          /\ pret.served = "disk" /\ pret.state = pret.stored /\ ~pret.fetched
          /\ pretFile = PageFile("num", now, pret.stored))
    /\ (pret.found = "expired" =>
          /\ pret.deleted /\ pret.fetched /\ pret.served = "origin"
          /\ pretFile = PageFile("num", now, pret.state))

\* C26 (amended): reading a page entry younger than the TTL returns the stored
\* state without an origin fetch and attempts to rewrite the entry with the
\* current time; reading an entry older than the TTL attempts to delete it and
\* is a miss: createOrShowPage fetches the origin and, when the fetch succeeds,
\* attempts to store a new entry. A failing write or delete is swallowed and
\* leaves the file as it was; a failing fetch makes createOrShowPage fail
C26_SlidingTtlAttempts ==
  plast = "createOrShowPage" =>
    /\ (pret.found = "fresh" =>
          /\ pret.served = "disk" /\ pret.state = pret.stored /\ ~pret.fetched
          /\ ~pret.unlinked
          /\ pretFile.kind = "entry" /\ pretFile.state = pret.stored
          /\ (pret.wrote => pretFile = PageFile("num", now, pret.stored)))
    /\ (pret.found = "expired" =>
          /\ pret.unlinked /\ pret.fetched /\ pret.served \in {"origin", "error"}
          /\ (pret.wrote => pretFile = PageFile("num", now, pret.state))
          /\ ((~pret.wrote /\ pret.deleted) => pretFile = NoPageFile)
          /\ (pret.served = "error" => ~pret.wrote))

\* an expired entry was deleted, the page fetched and a new entry stored
C26_Witness ==
  /\ plast = "createOrShowPage" /\ pret.found = "expired"
  /\ pret.deleted /\ pret.served = "origin" /\ pret.wrote
  /\ pretFile = PageFile("num", now, pret.state)

(***************************************************************************)
(* Properties of the ancestor-chain walk                                   *)
(***************************************************************************)
\* the returned chain ends at the requested node
ChainEndsAtRequest ==
  normalizeId(cret.chain[Len(cret.chain)].id) = normalizeId(cret.pageId)
\* each element is the parent the origin declares for the next
ChainParentLinked ==
  \A i \in 1..(Len(cret.chain) - 1) :
    originParent(cret.chain[i + 1].id.h) = cret.chain[i].id.h

\* C10: a non-null result of getAncestorChain is in root-to-node order: its
\* first element is the configured root (hyphens stripped), its last element
\* is the requested node, and each element is the declared parent of the next
C10_ChainRootToNode ==
  (cret.done /\ ~cret.isNull) =>
    /\ normalizeId(cret.chain[1].id) = rootNormalized
    /\ ChainEndsAtRequest
    /\ ChainParentLinked

\* C11: a walk that ends, before the root, at a node without a parent id (a
\* node taken from the item cache has none) returns null
C11_NoParentReturnsNull ==
  (cret.done /\ cret.why \in {"noParent", "cached"}) => cret.isNull

\* what following the parent pointers from an id meets first, read off the
\* workspace and the item cache: the root, a node without parent id, a cached
\* node, a node the API does not answer for, or an id met before
RECURSIVE Climb(_, _)
Climb(id, visited) ==
  IF origin.ladder THEN "ladder"
  ELSE IF normalizeId(id) \in visited THEN "cycle"
  ELSE IF \E x \in itemCache : x.id = id
       THEN (IF normalizeId(id) = rootNormalized THEN "root" ELSE "cached")
  ELSE IF originKind(id.h) = "none" THEN "fetchNull"
  ELSE IF normalizeId(id) = rootNormalized THEN "root"
  ELSE IF originParent(id.h) = 0 THEN "noParent"
  ELSE Climb(Id(originParent(id.h), TRUE), visited \cup {normalizeId(id)})

\* C12: when the parent pointers followed from the requested node come back to
\* an id already met in the walk (hyphens stripped) before the root is
\* reached, getAncestorChain returns null
C12_CycleReturnsNull ==
  (cret.done /\ cret.pageId # NoId /\ Climb(cret.pageId, {}) = "cycle") => cret.isNull

\* a walk asked with the unhyphenated id that went round a cycle of two nodes
\* and was stopped at the hyphenated id of the node it started from
C12_Witness ==
  /\ cret.done /\ cret.isNull /\ cret.why = "seen"
  /\ cret.pageId # NoId /\ ~cret.pageId.dashed
  /\ Climb(cret.pageId, {}) = "cycle"
  /\ cret.guard = 3

\* C13: the walk ends after at most MaxHops node lookups whatever the parent
\* pointers are, and a walk that used them all without meeting the root
\* returns null
C13_HopLimitReturnsNull ==
  /\ walk.guard <= MaxHops
  /\ (cret.done => cret.guard <= MaxHops)
  /\ ((cret.done /\ cret.why = "hops") => cret.isNull)

(***************************************************************************)
(* Properties of the operations the UI calls                               *)
(***************************************************************************)
\* C14: ensureItemVisible returns a node only when the walk up produced a
\* chain from the configured root to the node and the walk down found each
\* element of the chain among the children getChildren gave for the one before
C14_VisibleNeedsRootChain ==
  (uret.done /\ uret.name = "ensureItemVisible" /\ uret.kind = "item") =>
    /\ Len(uret.chain) >= 1
    /\ normalizeId(uret.chain[1].id) = rootNormalized
    /\ normalizeId(uret.chain[Len(uret.chain)].id) = normalizeId(uret.pageId)
    /\ uret.matched = Len(uret.chain) - 1

\* what the parent pointers of the workspace lead to from a node: the root, a
\* node without parent, a node the API does not answer for, or a cycle
RECURSIVE GraphClimb(_, _)
GraphClimb(h, visited) ==
  IF h \in visited THEN "cycle"
  ELSE IF originKind(h) = "none" THEN "fetchNull"
  ELSE IF h = rootNormalized.h THEN "root"
  ELSE IF originParent(h) = 0 THEN "noParent"
  ELSE GraphClimb(originParent(h), visited \cup {h})

\* C15: for a node the parent pointers do not connect to the configured root
\* ensureItemVisible answers null, and it raises nothing
C15_UnreachableIsNull ==
  (uret.done /\ uret.name = "ensureItemVisible") =>
    /\ uret.kind # "threw"
    /\ ((uret.pageId = NoId \/ GraphClimb(uret.pageId.h, {}) # "root") => uret.kind = "null")

\* C16: without an API key every operation that needs the origin
\* (getPageDataById, getChildren, ensureItemVisible) fails with the
\* not-configured error and never answers an empty result
C16_NotConfiguredFailsFast ==
  (uret.done /\ ~configured.api) => (uret.kind = "threw" /\ uret.notConfigured)

anyCell(S) == \E k \in 1..Len(rows) : \E c \in 1..Len(rows[k]) : rows[k][c] \in S

\* C18: the view kind of the fetched rows is timeline if some row's date cell
\* has an end, calendar if some row has a date and no row has an end (also
\* when some rows have no date value at all), table if there is no date column
C18_ViewKind ==
  view.done =>
    /\ (anyCell({"range"}) => view.viewType = "timeline")
    /\ ((anyCell({"start"}) /\ ~anyCell({"range"})) => view.viewType = "calendar")
    /\ (~anyCell(DateCells) => view.viewType = "table")

\* placeholder k of the document has been processed by the loop
processed(k) == inl.pc # "idle" /\ k < inl.i
rowFetched(db) == \E j \in 1..Len(inl.rowCalls) : inl.rowCalls[j] = db
hasDescriptor(db) ==
  \E j \in 1..Len(inl.inlineDatabases) : inl.inlineDatabases[j].databaseId = db
\* the metadata fetcher is supplied and reports the database as not inline
reportedFullPage(db) == hasInfo /\ configured.api /\ env[db].meta = "full"

\* C19: a placeholder whose database the metadata fetcher reports as not
\* inline is replaced by a plain link; the row fetcher is never called for
\* that database and no descriptor is added for it
C19_FullPageIsLinkOnly ==
  \A k \in 1..Len(doc) :
    reportedFullPage(doc[k]) =>
      /\ ~rowFetched(doc[k])
      /\ ~hasDescriptor(doc[k])
      /\ processed(k) => inl.markdown[k] = dbLink(doc[k], "meta")

\* a finished pass over a full-page database followed by an inline one with rows
C19_Witness ==
  /\ inl.pc = "done" /\ Len(doc) = 2
  /\ reportedFullPage(doc[1]) /\ inl.markdown[1].kind = "link"
  /\ hasDescriptor(doc[2])

\* the row fetch, or the metadata fetch, of the database fails
fetchFails(db) ==
  \/ ~configured.api
  \/ hasInfo /\ env[db].meta = "fail"
  \/ ~reportedFullPage(db) /\ ~env[db].rows.ok

\* C20: when the row fetch or the metadata fetch of a placeholder fails, the
\* placeholder is replaced by the plain link and gets no descriptor, and the
\* resolver goes on to the later placeholders
C20_FetchFailureIsLink ==
  \A k \in 1..Len(doc) :
    (processed(k) /\ fetchFails(doc[k])) =>
      /\ inl.markdown[k].kind = "link"
      /\ ~hasDescriptor(doc[k])

(***************************************************************************)
(* Properties of blockToMarkdown                                           *)
(***************************************************************************)
\* C21: two calls of blockToMarkdown on the same block, made at any two points
\* in time, return the same string, for every block type, embeds of a map URL
\* included
C21_SameBlockSameText ==
  \A i \in 1..Len(outs) : \A j \in 1..Len(outs) : outs[i] = outs[j]

\* C22: blockToMarkdown returns a string for every block value without
\* raising, and the empty string for every block whose type has no renderer
C22_TotalAndEmptyForUnsupported ==
  \A i \in 1..Len(outs) :
    /\ ~outs[i].raised
    /\ outs[i].isString
    /\ (blk.type \notin Supported) => outs[i] = Empty

\* C27: within one pass inlineDatabases never holds two descriptors with the
\* same databaseId, also when the same placeholder occurs more than once
C27_OneDescriptorPerDatabase ==
  \A i \in 1..Len(inl.inlineDatabases) : \A j \in 1..Len(inl.inlineDatabases) :
    inl.inlineDatabases[i].databaseId = inl.inlineDatabases[j].databaseId => i = j

\* getParent(c): parentMap.get(c.id) is the element; getItemById(id):
\* itemCache.get(id) is the item
parentIs(c, element) == [child |-> c.id, parent |-> element] \in parentMap
itemByIdIs(c) == c \in itemCache

\* C31: after getChildren(parent) has returned a list, by whichever layer it
\* was served (origin fetch, disk hit or memory hit), every node c of the
\* list has getParent(c) = parent and getItemById(c.id) = c
C31_ChildrenIndexed ==
  last = "getChildren" =>
    \A k \in 1..Len(ret.data) :
      /\ parentIs(ret.data[k], ret.el)
      /\ itemByIdIs(ret.data[k])

\* the ids a block refers to, in the order they occur in it, repeats kept:
\* the block's own id for a child page or database, and for each rich-text
\* item its mention and then the id in its href
RECURSIVE occurrencesIn(_, _)
occurrencesIn(richTexts, k) ==
  IF k > Len(richTexts) THEN <<>>
  ELSE LET text == richTexts[k]
           m == IF text.mention # NoId THEN <<text.mention>> ELSE <<>>
           l == IF extractPageIdFromHref(text.href) # NoId
                THEN <<extractPageIdFromHref(text.href)>> ELSE <<>>
       IN  m \o l \o occurrencesIn(richTexts, k + 1)
occurrencesOf(block) ==
  IF block.type \in {"child_page", "child_database"} THEN <<block.id>>
  ELSE IF block.type = "paragraph" THEN occurrencesIn(block.rich_text, 1)
  ELSE <<>>
RECURSIVE occurrencesUpTo(_)
occurrencesUpTo(n) ==
  IF n = 0 THEN <<>> ELSE occurrencesUpTo(n - 1) \o occurrencesOf(scan.blocks[n])
\* the blocks the loop has scanned
scanned == IF scan.pc = "idle" THEN 0 ELSE scan.i - 1
\* seq without the elements that occurred earlier in it
RECURSIVE firstOccurrences(_)
firstOccurrences(seq) ==
  IF seq = <<>> THEN <<>>
  ELSE LET init == SubSeq(seq, 1, Len(seq) - 1)
           x == seq[Len(seq)]
       IN  IF \E k \in 1..Len(init) : init[k] = x
           THEN firstOccurrences(init)
           ELSE Append(firstOccurrences(init), x)
childIds == [k \in 1..Len(scan.children) |-> scan.children[k].id]

\* C37: the children list produced by one origin scan of a page holds no
\* two nodes with the same id, and the nodes are in the order of their first
\* occurrence across the scanned blocks (child page and database blocks,
\* page mentions and links in rich text)
C37_NoDuplicateFirstOccurrenceOrder ==
  /\ \A i \in 1..Len(scan.children) : \A j \in 1..Len(scan.children) :
       scan.children[i].id = scan.children[j].id => i = j
  /\ childIds = firstOccurrences(occurrencesUpTo(scanned))

\* a finished scan that met an id a second time within one paragraph and
\* an id a second time in a later block
C37_Witness ==
  /\ scan.pc = "done" /\ Len(scan.blocks) = 2
  /\ Len(occurrencesOf(scan.blocks[2])) > Len(firstOccurrences(occurrencesOf(scan.blocks[2])))
  /\ \E k \in 1..Len(occurrencesOf(scan.blocks[2])) :
       \E j \in 1..Len(occurrencesOf(scan.blocks[1])) :
         occurrencesOf(scan.blocks[2])[k] = occurrencesOf(scan.blocks[1])[j]
  /\ Len(scan.children) >= 2

\* C34: after refreshActivePage has fetched and stored a fresh state for an
\* open page, a later saveViewModes message of that page's panel stores the
\* refreshed page content together with the new view modes; it never puts
\* back the page content the panel was opened with
C34_SaveViewModesKeepsRefreshedContent ==
  (plast = "saveViewModes" /\ pret.wrote /\ panels[pret.id].refreshed # NoState) =>
    /\ pretFile.state.content = panels[pret.id].refreshed.content
    /\ pretFile.state.viewModes = pret.state.viewModes

\* C35: the token written for a child_database block with id d and title t
\* is read back by the pattern as exactly (d, t) and the whole token is
\* consumed, also when t holds underscores, a double underscore, or ends
\* with an underscore
C35_PlaceholderRoundTrip ==
  tk.pc = "matched" =>
    /\ tk.found
    /\ tk.databaseId = tk.id
    /\ tk.parsedTitle = databaseTitle(tk.title)
    /\ tk.consumed = Len(renderChildDatabase(tk.id, tk.title))

\* a finished refreshItem whose two file deletions succeeded leaves no entry
\* of the node, under either spelling, in memory or on disk
RefreshedInBothLayers ==
  (last = "refreshItem" /\ ret.wrote) =>
    (MemoryCleared(ret.el.id) /\ DiskCleared(ret.el.id))

\* a getChildren call that goes past the memory layer does so only when the
\* memory layer holds no children entry of the node under either spelling
HitUnderEitherSpelling ==
  (op.name = "idle" /\ op'.name = "getChildren") =>
    \A x \in SameNode(op'.el.id) : ~cache[cacheKey(x, op'.el.type)].has

\* C38: two ids that differ only in hyphenation are the same node in every
\* layer of the hierarchy cache: a children entry stored under one form is
\* hit by getChildren with the other form, and is removed from memory and
\* from disk by refreshItem with the other form
C38_SameNodeInEveryLayer == []RefreshedInBothLayers /\ [][HitUnderEitherSpelling]_vars

\* the columns of the table: the properties of the first row
columns == IF rows = <<>> THEN {} ELSE 1..Len(rows[1])
\* column c is date-typed in the first row and some row has a start value in it
qualifies(c) ==
  /\ rows # <<>> /\ c \in 1..Len(rows[1])
  /\ rows[1][c] \in DateCells
  /\ \E k \in 1..Len(rows) : rows[k][c] \in {"start", "range"}

\* C36: the date column chosen for a table is the first date-typed column, in
\* column order, for which at least one row has a non-null start value;
\* date-typed columns with no start value in any row are skipped; if no
\* column qualifies no date property is reported and the view kind is "table"
C36_FirstDateColumnWithValue ==
  view.done =>
    IF \E c \in columns : qualifies(c)
    THEN /\ qualifies(view.datePropertyName)
         /\ \A c \in 1..(view.datePropertyName - 1) : ~qualifies(c)
    ELSE view.datePropertyName = 0 /\ view.viewType = "table"

\* two date columns, the first without a start value in any row: the second
\* one is chosen
C36_Witness ==
  /\ view.done /\ Len(rows) >= 2 /\ columns = 1..2
  /\ \A c \in columns : rows[1][c] \in DateCells
  /\ ~qualifies(1) /\ qualifies(2)
  /\ view.datePropertyName = 2

\* the markdown the resolver returns
returnedMarkdown == inl.markdown

\* C32: after the resolver has finished, every placeholder token still in
\* the returned markdown has a descriptor with the same databaseId in
\* inlineDatabases; an inline database whose row fetch returns zero rows
\* leaves no token without a descriptor
C32_NoOrphanPlaceholder ==
  inl.pc = "done" =>
    \A k \in 1..Len(returnedMarkdown) :
      returnedMarkdown[k].kind = "placeholder" => hasDescriptor(returnedMarkdown[k].db)

\* s is t with some elements left out, the order kept
RECURSIVE IsSubseq(_, _)
IsSubseq(s, t) ==
  IF s = <<>> THEN TRUE
  ELSE IF t = <<>> THEN FALSE
  ELSE IF Head(s) = Head(t) THEN IsSubseq(Tail(s), Tail(t))
  ELSE IsSubseq(s, Tail(t))

\* the placeholders the loop has left behind it, in text order
handledPlaceholders == SubSeq(doc, 1, IF inl.pc = "idle" THEN 0 ELSE inl.i - 1)
descriptorIds == [j \in 1..Len(inl.inlineDatabases) |-> inl.inlineDatabases[j].databaseId]

\* the row fetches made and the descriptors pushed follow the text order of
\* the placeholders already handled
InTextOrder ==
  /\ IsSubseq(inl.rowCalls, handledPlaceholders)
  /\ IsSubseq(descriptorIds, handledPlaceholders)

\* one step of the resolver works on the placeholder at the loop index only:
\* the index moves on by at most one, a fetch is recorded only for the
\* placeholder at the index, and at most one descriptor is added at the end
OneAtATime ==
  /\ inl'.i \in {inl.i, inl.i + 1} \/ inl.pc = "idle"
  /\ inl'.rowCalls # inl.rowCalls =>
       /\ inl.pc = "rows" /\ inl'.i = inl.i + 1
       /\ inl'.rowCalls = Append(inl.rowCalls, doc[inl.i])
  /\ inl'.inlineDatabases # inl.inlineDatabases =>
       /\ Len(inl'.inlineDatabases) = Len(inl.inlineDatabases) + 1
       /\ SubSeq(inl'.inlineDatabases, 1, Len(inl.inlineDatabases)) = inl.inlineDatabases
       /\ inl'.inlineDatabases[Len(inl'.inlineDatabases)].databaseId = doc[inl.i]

\* C33: the resolver handles the placeholders one at a time in text order:
\* the fetches of a placeholder start only after every fetch of the earlier
\* placeholders has completed, and the descriptors in inlineDatabases are in
\* the order of their placeholders in the document
C33_OneAtATimeInTextOrder == []InTextOrder /\ [][OneAtATime]_vars

\* a finished pass over two different inline databases, both with rows
C33_Witness ==
  /\ inl.pc = "done" /\ Len(doc) = 2 /\ doc[1] # doc[2]
  /\ inl.rowCalls = doc /\ descriptorIds = doc

(***************************************************************************)
(* Properties of the document assembler                                    *)
(***************************************************************************)
\* the block lists blocksToMarkdown was invoked with during the render
Levels == {top} \cup { kids[p] : p \in expanded }
\* position in the output of the line of row block id
PosOfRow(id) == CHOOSE i \in 1..Len(output) : output[i].k = "row" /\ output[i].id = id
SepFollows(i) == i < Len(output) /\ output[i + 1].k = "sep"
SepFits(i) == SepFollows(i) /\ output[i + 1].n = output[i].n
isRow(b) == b.type = "table_row"

\* L[k] is a row that starts a maximal run of consecutive rows with one parent id
StartsConsecutiveRun(L, k) ==
  k = 1 \/ ~isRow(L[k - 1]) \/ L[k - 1].parent # L[k].parent

\* the same, the runs being taken in L with its `table` blocks left out
StartsRunIgnoringTables(L, k) ==
  LET before == { j \in 1..(k - 1) : L[j].type # "table" }
  IN  \/ before = {}
      \/ LET j == CHOOSE x \in before : \A y \in before : y <= x
         IN ~isRow(L[j]) \/ L[j].parent # L[k].parent

SeparatorsWellPlaced ==
  \A i \in 1..Len(output) : output[i].k = "sep" => (i > 1 /\ output[i - 1].k = "row")

\* C1 as stated: one separator per maximal run of consecutive rows of one parent,
\* right after the first row of the run and sized to it, and none elsewhere
C1_SeparatorPerConsecutiveRun ==
  done =>
    /\ SeparatorsWellPlaced
    /\ \A L \in Levels : \A k \in 1..Len(L) :
         isRow(L[k]) =>
           IF StartsConsecutiveRun(L, k) THEN SepFits(PosOfRow(L[k].id))
           ELSE ~SepFollows(PosOfRow(L[k].id))

\* C1 (amended): in the output of blocksToMarkdown, taking the runs of rows of one
\* parent id in each block list with its `table` blocks left out (a `table` block
\* between two rows does not end a run), exactly one separator line is emitted per
\* run, immediately after the first row of the run, with as many cells as that row;
\* no separator follows any other row
C1_SeparatorPerRun ==
  done =>
    /\ SeparatorsWellPlaced
    /\ \A L \in Levels : \A k \in 1..Len(L) :
         isRow(L[k]) =>
           IF StartsRunIgnoringTables(L, k) THEN SepFits(PosOfRow(L[k].id))
           ELSE ~SepFollows(PosOfRow(L[k].id))

\* a finished render whose output holds a two-cell first row with its separator
\* directly followed by a second row of the same table without one
C1_Witness ==
  /\ done
  /\ \E i \in 1..Len(output) :
       /\ i + 2 <= Len(output)
       /\ output[i].k = "row" /\ output[i].n = 2
       /\ output[i + 1] = SepLine(2)
       /\ output[i + 2].k = "row"
       /\ ~SepFollows(i + 2)

\* L[k] is the first row after the non-row block L[j]
FirstRowAfter(L, j, k) ==
  /\ j < k /\ ~isRow(L[j]) /\ isRow(L[k])
  /\ \A m \in (j + 1)..(k - 1) : ~isRow(L[m])
RowBefore(L, j) == \E a \in 1..(j - 1) : isRow(L[a])

\* C2 as stated: any non-row block between two rows, a `table` block included,
\* makes the first row after it start a new table
C2_AnyBlockResets ==
  done =>
    \A L \in Levels : \A j \in 1..Len(L) : \A k \in 1..Len(L) :
      (FirstRowAfter(L, j, k) /\ RowBefore(L, j)) => SepFits(PosOfRow(L[k].id))

\* C2 (amended): any non-table-row block other than a `table` block that appears
\* between two table_row blocks resets table-start detection: the first
\* table_row after it is followed by a separator row even when its parent id
\* equals that of the rows before the block; a `table` block does not reset it
C2_NonTableBlockResets ==
  done =>
    \A L \in Levels : \A j \in 1..Len(L) : \A k \in 1..Len(L) :
      (FirstRowAfter(L, j, k) /\ RowBefore(L, j)) =>
         IF \E m \in j..(k - 1) : L[m].type # "table"
         THEN SepFits(PosOfRow(L[k].id))
         ELSE (SepFollows(PosOfRow(L[k].id)) <=> StartsRunIgnoringTables(L, k))

\* row(T1), a block that is neither row nor table, row(T1): two separators
C2_Witness ==
  /\ done
  /\ \E L \in Levels : \E j \in 2..Len(L) :
       /\ j + 1 <= Len(L)
       /\ isRow(L[j - 1]) /\ isRow(L[j + 1]) /\ L[j - 1].parent = L[j + 1].parent
       /\ ~isRow(L[j]) /\ L[j].type # "table"
       /\ SepFits(PosOfRow(L[j - 1].id)) /\ SepFits(PosOfRow(L[j + 1].id))

\* number of <details> openers minus number of </details> in a text
RECURSIVE OpenDepth(_)
OpenDepth(md) ==
  IF md = <<>> THEN 0
  ELSE LET t == md[Len(md)]
           d == OpenDepth(SubSeq(md, 1, Len(md) - 1))
       IN  IF t.k = "frag" /\ t.open THEN d + 1
           ELSE IF t.k = "close" THEN d - 1
           ELSE d

\* C3: every <details> opened by a toggle or toggleable heading is matched by
\* exactly one </details>, properly nested, whatever the child fetch does
C3_DisclosureBalance ==
  done =>
    /\ OpenDepth(output) = 0
    /\ \A n \in 0..Len(output) : OpenDepth(SubSeq(output, 1, n)) >= 0

\* ids of the block fragments of a text, in text order
FragIds(md) ==
  LET f == SelectSeq(md, LAMBDA t : t.k \in {"row", "frag"})
  IN  [i \in 1..Len(f) |-> f[i].id]

\* document order of the blocks, the children of a block whose fetch did not
\* resolve being absent
RECURSIVE PreOrder(_)
PreOrder(L) ==
  IF L = <<>> THEN <<>>
  ELSE LET b == Head(L)
       IN  <<b.id>> \o (IF b.id \in expanded THEN PreOrder(kids[b.id]) ELSE <<>>)
                    \o PreOrder(Tail(L))

\* C4: a failed child fetch does not stop the render: it always runs on to its
\* end, and the output holds the fragment of every block but the descendants of
\* the blocks whose fetch failed, in document order
C4_FailedFetchKeepsRest ==
  /\ (~done => ENABLED AsmNext)
  /\ (done => FragIds(output) = PreOrder(top))

\* a finished render in which the fetch for a nested block failed and a block
\* follows that block in the output
C4_Witness ==
  /\ done
  /\ \E b \in failed :
       /\ \A k \in 1..Len(top) : top[k].id # b
       /\ \E i \in 1..Len(output) : \E j \in 1..Len(output) :
            /\ i < j
            /\ output[i].k = "frag" /\ output[i].id = b
            /\ output[j].k = "frag"

\* the blocks of the render, and the characters of a text of tokens
RenderedBlocks == UNION { { L[k] : k \in 1..Len(L) } : L \in Levels }
BlockOfId(id) == CHOOSE b \in RenderedBlocks : b.id = id
RECURSIVE TextOf(_)
TextOf(md) ==
  IF md = <<>> THEN <<>> ELSE tokenText(Head(md), RenderedBlocks) \o TextOf(Tail(md))

\* the document is the single block of this type
SingleBlock(type, togg, has_children) ==
  /\ Len(top) = 1
  /\ top[1].type = type /\ top[1].togg = togg /\ top[1].has_children = has_children

\* C23 as stated: a single toggleable heading_1 "FAQ" without children assembles
\* to <details>\n<summary><h1>FAQ</h1></summary>\n\n</details>\n, with two
\* newlines between the summary line and the closing tag
C23_ToggleHeadingTwoNewlines ==
  (done /\ SingleBlock("heading_1", TRUE, FALSE)) =>
    TextOf(output) = <<"<details>", NL, "<summary><h1>", "FAQ", "</h1></summary>", NL, NL,
                       "</details>", NL>>

\* C23 (amended): a single toggleable heading_1 "FAQ" without children assembles
\* to the opener, which ends with its own newline, the blank line of the
\* assembler and the closing tag: three newlines stand between </summary> and
\* </details>
C23_ToggleHeadingThreeNewlines ==
  (done /\ SingleBlock("heading_1", TRUE, FALSE)) =>
    TextOf(output) = <<"<details>", NL, "<summary><h1>", "FAQ", "</h1></summary>", NL, NL, NL,
                       "</details>", NL>>

\* the render of the single childless toggleable heading has finished
C23_Witness ==
  /\ done /\ SingleBlock("heading_1", TRUE, FALSE)
  /\ Len(output) = 3 /\ output[3] = Close

\* a block that is no table_row, has no children and opens no disclosure
PlainLeaf(b) == b.type # "table_row" /\ ~b.has_children /\ ~isToggleOrToggleHeading(b)

\* C24: a non-table-row block without children that is no toggle contributes
\* its fragment followed by one blank line and nothing else; a single
\* paragraph "Hello" assembles to Hello\n\n
C24_LeafIsFragmentAndBlankLine ==
  done =>
    /\ \A i \in 1..Len(output) :
         (output[i].k = "frag" /\ PlainLeaf(BlockOfId(output[i].id))) =>
            /\ i < Len(output) /\ output[i + 1] = Blank
            /\ (i + 1 < Len(output) => output[i + 2].k # "nn")
    /\ (\A k \in 1..Len(top) : PlainLeaf(top[k])) =>
         /\ Len(output) = 2 * Len(top)
         /\ \A k \in 1..Len(top) :
              output[2 * k - 1] = blockToMarkdown(top[k]) /\ output[2 * k] = Blank
    /\ SingleBlock("paragraph", FALSE, FALSE) => TextOf(output) = <<"Hello", NL, NL>>

\* the single paragraph has been assembled
C24_Witness ==
  /\ done /\ SingleBlock("paragraph", FALSE, FALSE)
  /\ output = <<blockToMarkdown(top[1]), Blank>>

Outstanding == { k \in 1..Len(stack) : stack[k].pc = "await" }
wasCalled(id) == \E i \in 1..Len(calls) : calls[i] = id

\* C30: at most one getChildBlocks call is outstanding at any time, the calls
\* are issued in depth-first pre-order of the blocks, and the text is the
\* concatenation of the block fragments in that pre-order, however long the
\* fetches take
C30_SequentialPreOrder ==
  /\ Cardinality(Outstanding) <= 1
  /\ calls = SelectSeq(PreOrder(top), wasCalled)
  /\ done => FragIds(output) = PreOrder(top)
  /\ \A k \in 1..Len(stack) :
       FragIds(stack[k].markdown \o stack[k].result) =
         SubSeq(PreOrder(stack[k].blocks), 1, Len(FragIds(stack[k].markdown \o stack[k].result)))

\* a finished render with a fetch inside a fetched subtree and a block after it
C30_Witness ==
  /\ done /\ Len(calls) = 2 /\ Len(top) = 2
  /\ calls[1] = top[1].id
  /\ calls[2] \in expanded
  /\ FragIds(output) = <<top[1].id, calls[2], top[2].id>>
  /\ \E k \in 1..Len(kids[calls[1]]) : kids[calls[1]][k].id = calls[2]

====
